---- MODULE Spec2Model ----
(***************************************************************************)
(* Model of the FPL advisor route handler (src/src/app/api/advise/route.js, *)
(* the JSON-reply version of the file, lines 301-674).                      *)
(*                                                                          *)
(* One request is followed from its arrival to its response.  The steps of *)
(* the model are the handler's suspension points: every action runs the    *)
(* synchronous code between two awaits, the catch block included.          *)
(*                                                                          *)
(* Strings that the code builds or receives as text (error messages, the   *)
(* completion reply) are sequences of chunks: a fixed message is one       *)
(* chunk, a template literal is the sequence of its parts, a completion    *)
(* reply is the sequence of its JSON tokens, the empty string is << >>.    *)
(* Configuration values and query parameters are plain strings, with      *)
(* Absent for undefined/null.                                               *)
(*                                                                          *)
(* The page's component (src/src/components/FPLAdvisorClient.js and its     *)
(* copy src/unnamed/part_000) is modelled by SpecClient: the texts of its   *)
(* two input fields are kept character by character.                        *)
(***************************************************************************)
EXTENDS Integers, Sequences, FiniteSets, TLC

\* ---------------------------------------------------------------- bounds
\* Longest list of gameweek records in a fetched catalog.
MaxEvents == 2
\* Longest completion reply, in JSON tokens.
MaxReplyLen == 3

\* ------------------------------------------------------------- JS values
\* undefined / null of a configuration value or query parameter.
Absent == "<absent>"

\* JavaScript truthiness of a string-or-absent value.
Truthy(v) == v # Absent /\ v # ""

\* Mutant: a ?? b, an empty string is kept.
OrElseNullish(a, b) == IF a # Absent THEN a ELSE b

\* a || b on string-or-absent values.
OrElse(a, b) == IF Truthy(a) THEN a ELSE b

\* JSON values, tagged by their type.
JUndefined == [type |-> "undefined"]
JNull == [type |-> "null"]
JNum(n) == [type |-> "number", n |-> n]
JStr(s) == [type |-> "string", s |-> s]
JArr(elems) == [type |-> "array", elems |-> elems]
JObj(fields) == [type |-> "object", fields |-> fields]
Member(k, v) == [key |-> k, val |-> v]

IsObject(v) == v.type = "object"
Keys(o) == IF IsObject(o) THEN {o.fields[i].key : i \in DOMAIN o.fields} ELSE {}
HasKey(o, k) == k \in Keys(o)
Get(o, k) ==
  IF HasKey(o, k)
  THEN (CHOOSE m \in {o.fields[i] : i \in DOMAIN o.fields} : m.key = k).val
  ELSE JUndefined

\* Truthiness of a JSON value: null, undefined, 0 and "" are falsy.  The
\* payload of a JSON string is a text (a sequence of chunks).
JTruthy(v) ==
  CASE v.type \in {"undefined", "null"} -> FALSE
    [] v.type = "number" -> v.n # 0
    [] v.type = "string" -> v.s # << >>
    [] OTHER -> TRUE

\* ------------------------------------------------------------ JSON.parse
\* The lexemes a completion reply is made of.  "\"error\":" and "\"advice\":"
\* are a member's key with its colon, "\"text\"" is a string literal.
KeyTokens == {"\"error\":", "\"advice\":"}
Tokens == {"{", "}", "[", "]", "\"text\"", "null"} \cup KeyTokens
KeyOf(tok) == IF tok = "\"error\":" THEN "error" ELSE "advice"

ParseFail(i) == [ok |-> FALSE, val |-> JUndefined, next |-> i]
ParseOk(v, i) == [ok |-> TRUE, val |-> v, next |-> i]
At(toks, i) == IF i \in DOMAIN toks THEN toks[i] ELSE "<eof>"

\* Recursive descent over the JSON grammar restricted to containers of at
\* most one element: value ::= null | string | [] | [value] | {} | {key value}.
RECURSIVE ParseValue(_, _)
ParseValue(toks, i) ==
  LET t == At(toks, i) IN
  CASE t = "null" -> ParseOk(JNull, i + 1)
    [] t = "\"text\"" -> ParseOk(JStr(<<"text">>), i + 1)
    [] t = "[" ->
         IF At(toks, i + 1) = "]" THEN ParseOk(JArr(<< >>), i + 2)
         ELSE LET r == ParseValue(toks, i + 1) IN
              IF r.ok /\ At(toks, r.next) = "]"
              THEN ParseOk(JArr(<<r.val>>), r.next + 1)
              ELSE ParseFail(i)
    [] t = "{" ->
         IF At(toks, i + 1) = "}" THEN ParseOk(JObj(<< >>), i + 2)
         ELSE IF At(toks, i + 1) \in KeyTokens
         THEN LET r == ParseValue(toks, i + 2) IN
              IF r.ok /\ At(toks, r.next) = "}"
              THEN ParseOk(JObj(<<Member(KeyOf(toks[i + 1]), r.val)>>), r.next + 1)
              ELSE ParseFail(i)
         ELSE ParseFail(i)
    [] OTHER -> ParseFail(i)

\* Outcome of a call: a returned value or a thrown error (its message).
Return(v) == [threw |-> FALSE, error |-> << >>, value |-> v]
Throw(msg) == [threw |-> TRUE, error |-> msg, value |-> JUndefined]

\* JSON.parse(text): the whole text must be one value.
JSONParse(text) ==
  LET r == ParseValue(text, 1) IN
  IF r.ok /\ r.next = Len(text) + 1
  THEN Return(r.val)
  ELSE Throw(<<"SyntaxError: Unexpected token in JSON">>)

\* All texts of at most n tokens.
TextsUpTo(n) == UNION {[1..k -> Tokens] : k \in 0..n}

\* ------------------------------------------------------ upstream replies
\* What fetch(url) can give: a transport error (fetch rejects with a cause)
\* or an HTTP response with a status, a body text and, when the body is
\* well-formed JSON, the data it encodes.
TransportError(cause) ==
  [kind |-> "transport", cause |-> cause, status |-> 0, text |-> << >>,
   wellFormed |-> FALSE, data |-> JUndefined]
HttpResponse(status, text, wellFormed, data) ==
  [kind |-> "http", cause |-> << >>, status |-> status, text |-> text,
   wellFormed |-> wellFormed, data |-> data]

\* response.ok
ResponseOk(reply) == reply.status \in 200..299

FailingReplies ==
  {TransportError(<<"TypeError: fetch failed">>),
   HttpResponse(403, <<"Forbidden">>, FALSE, JUndefined),
   HttpResponse(503, << >>, FALSE, JUndefined),
   HttpResponse(200, <<"<html>">>, FALSE, JUndefined)}
OkReplies(dataSet) == {HttpResponse(200, <<"json">>, TRUE, d) : d \in dataSet}

\* Mutant: the status of the response is not looked at.
FetchDataIgnoringStatus(reply) ==
  IF reply.kind = "transport" THEN Throw(reply.cause)
  ELSE IF ~reply.wellFormed
  THEN Throw(<<"SyntaxError: Unexpected token in JSON">>)
  ELSE Return(reply.data)

\* fetchData(url, options): the reply decides the outcome.
FetchData(reply) ==
  IF reply.kind = "transport" THEN Throw(reply.cause)
  ELSE IF ~ResponseOk(reply)
  THEN Throw(<<"API request failed with status ", ToString(reply.status),
               ": ">> \o reply.text)
  ELSE IF ~reply.wellFormed
  THEN Throw(<<"SyntaxError: Unexpected token in JSON">>)
  ELSE Return(reply.data)

\* --------------------------------------------------------------- catalog
\* Gameweek lists as the data provider serves them: record i carries id i,
\* at most one record is flagged is_current (record c, none when c = 0) and at
\* most one is_next (record n).
EventList(k, c, n) == [i \in 1..k |-> [id |-> i, is_current |-> i = c, is_next |-> i = n]]
EventLists == {EventList(k, c, n) : k \in 0..MaxEvents, c \in 0..MaxEvents, n \in 0..MaxEvents}

\* ------------------------------------------------------- record defaults
\* Upstream records are functions from field names to values; a field the
\* upstream left out is not in the record's domain.
NoFields == [f \in {} |-> 0]
Has(rec, f) == f \in DOMAIN rec
\* rec.f || d for a numeric field, rec.f || d for a string field, rec.f ?? d.
NumOr(rec, f, d) == IF Has(rec, f) /\ rec[f] # 0 THEN rec[f] ELSE d
StrOr(rec, f, d) == IF Has(rec, f) /\ rec[f] # "" THEN rec[f] ELSE d
\* The same for a field kept as a sequence of characters (form).
CharsOr(rec, f, d) == IF Has(rec, f) /\ rec[f] # << >> THEN rec[f] ELSE d
Nullish(rec, f, d) == IF Has(rec, f) THEN rec[f] ELSE d

\* new Map(list.map(x => [x.id, x])).get(id): the last record with that id,
\* undefined (here: no fields) when there is none; an absent id is the key
\* undefined, which only a record without id is stored under.
MapGet(list, rec, f) ==
  LET hits == {i \in DOMAIN list :
                 IF Has(rec, f) THEN Has(list[i], "id") /\ list[i].id = rec[f]
                 ELSE ~Has(list[i], "id")} IN
  IF hits = {} THEN NoFields
  ELSE list[CHOOSE i \in hits : \A j \in hits : j <= i]

\* Mutant: the division by ten is applied twice.
Div10Twice(n) == [num |-> n, den |-> 100]

\* x / 10.0, kept exact.
Div10(n) == [num |-> n, den |-> 10]

\* ---------------------------------------------------- buildUserFPLContext
EnhancedPick(pick, bootstrapData) ==
  LET playerInfo == MapGet(bootstrapData.elements, pick, "element")
      teamInfo == MapGet(bootstrapData.teams, playerInfo, "team")
  IN [position |-> pick.position,
      player_id |-> pick.element,
      name |-> StrOr(playerInfo, "web_name", "Unknown"),
      team_name |-> StrOr(teamInfo, "name", "Unknown Team"),
      is_captain |-> pick.is_captain,
      is_vice_captain |-> pick.is_vice_captain,
      cost |-> Div10(NumOr(playerInfo, "now_cost", 0)),
      form |-> CharsOr(playerInfo, "form", <<"0">>),
      points_per_game |-> StrOr(playerInfo, "points_per_game", "0"),
      total_points |-> NumOr(playerInfo, "total_points", 0),
      selected_by_percent |-> StrOr(playerInfo, "selected_by_percent", "0"),
      chance_of_playing_next_round |->
        Nullish(playerInfo, "chance_of_playing_next_round", 100),
      minutes |-> NumOr(playerInfo, "minutes", 0),
      starts |-> NumOr(playerInfo, "starts", 0),
      bps |-> NumOr(playerInfo, "bps", 0),
      influence |-> StrOr(playerInfo, "influence", "0"),
      creativity |-> StrOr(playerInfo, "creativity", "0"),
      threat |-> StrOr(playerInfo, "threat", "0"),
      ict_index |-> StrOr(playerInfo, "ict_index", "0"),
      expected_goals |-> Nullish(playerInfo, "expected_goals", "N/A"),
      expected_assists |-> Nullish(playerInfo, "expected_assists", "N/A"),
      expected_goal_involvements |->
        Nullish(playerInfo, "expected_goal_involvements", "N/A")]

\* Mutant: every chip that has not been played counts as available.
AvailableChipsNotPlayed(chips) ==
  LET kept == SelectSeq(chips, LAMBDA chip : chip.status_for_event # "played") IN
  [i \in DOMAIN kept |-> kept[i].name]

\* chips.filter(status_for_event === "available").map(name)
RECURSIVE AvailableChips(_)
AvailableChips(chips) ==
  IF chips = << >> THEN << >>
  ELSE (IF Head(chips).status_for_event = "available"
        THEN <<Head(chips).name>> ELSE << >>) \o AvailableChips(Tail(chips))

\* Mutant: a pick whose player is not in the catalog is left out.
BuildUserFPLContextDroppingUnknown(myPicksRaw, bootstrapData) ==
  LET history == Nullish(myPicksRaw, "entry_history", NoFields)
      known(pick) == MapGet(bootstrapData.elements, pick, "element") # NoFields
      kept == SelectSeq(myPicksRaw.picks, known)
  IN
  [team_picks |-> [i \in DOMAIN kept |-> EnhancedPick(kept[i], bootstrapData)],
   bank |-> Div10(NumOr(history, "bank", 0)),
   transfers_made_this_gw |-> NumOr(history, "event_transfers", 0),
   active_chip |-> StrOr(myPicksRaw, "active_chip", Absent),
   available_chips |-> AvailableChips(Nullish(myPicksRaw, "chips", << >>))]

BuildUserFPLContext(myPicksRaw, bootstrapData) ==
  LET history == Nullish(myPicksRaw, "entry_history", NoFields) IN
  [team_picks |->
     [i \in DOMAIN myPicksRaw.picks |-> EnhancedPick(myPicksRaw.picks[i], bootstrapData)],
   bank |-> Div10(NumOr(history, "bank", 0)),
   transfers_made_this_gw |-> NumOr(history, "event_transfers", 0),
   active_chip |-> StrOr(myPicksRaw, "active_chip", Absent),
   available_chips |-> AvailableChips(Nullish(myPicksRaw, "chips", << >>))]

\* -------------------------------------------------------------- parseFloat
DigitChars == {"0", "1", "2", "3", "4", "5", "6", "7", "8", "9"}
DigitVal(c) ==
  CASE c = "0" -> 0 [] c = "1" -> 1 [] c = "2" -> 2 [] c = "3" -> 3
    [] c = "4" -> 4 [] c = "5" -> 5 [] c = "6" -> 6 [] c = "7" -> 7
    [] c = "8" -> 8 [] OTHER -> 9

\* Value of the leading run of digits of chars[i..], and where it ends.
RECURSIVE ReadDigits(_, _, _)
ReadDigits(chars, i, acc) ==
  IF i \in DOMAIN chars /\ chars[i] \in DigitChars
  THEN ReadDigits(chars, i + 1, acc * 10 + DigitVal(chars[i]))
  ELSE [val |-> acc, next |-> i]

\* parseFloat(chars) in tenths: the longest numeric prefix (digits, then an
\* optional point and decimals, of which the first one counts here: form
\* values carry one decimal), NaN when there is no such prefix.
ParseFloat(chars) ==
  LET int == ReadDigits(chars, 1, 0)
      hasInt == int.next > 1
      hasPoint == int.next \in DOMAIN chars /\ chars[int.next] = "."
      hasFrac == hasPoint /\ (int.next + 1) \in DOMAIN chars
                  /\ chars[int.next + 1] \in DigitChars
      frac == IF hasFrac THEN DigitVal(chars[int.next + 1]) ELSE 0
  IN IF hasInt \/ hasFrac
     THEN [nan |-> FALSE, tenths |-> int.val * 10 + frac]
     ELSE [nan |-> TRUE, tenths |-> 0]

\* parseFloat(p.form || 0)
FormNumber(p) ==
  IF Has(p, "form") /\ p.form # << >> THEN ParseFloat(p.form)
  ELSE [nan |-> FALSE, tenths |-> 0]

\* The sort comparator (a, b) => parseFloat(b.form || 0) - parseFloat(a.form || 0);
\* Array.prototype.sort reads a NaN result as 0.
FormCompare(a, b) ==
  IF FormNumber(a).nan \/ FormNumber(b).nan THEN 0
  ELSE FormNumber(b).tenths - FormNumber(a).tenths

\* Stable insertion: x moves left past every trailing element that the
\* comparator puts after it.
InsertByForm(sorted, x) ==
  LET after == {i \in DOMAIN sorted :
                  \A j \in i..Len(sorted) : FormCompare(sorted[j], x) > 0}
      k == IF after = {} THEN Len(sorted) + 1
           ELSE CHOOSE i \in after : \A j \in after : i <= j
  IN SubSeq(sorted, 1, k - 1) \o <<x>> \o SubSeq(sorted, k, Len(sorted))

RECURSIVE SortByForm(_)
SortByForm(list) ==
  IF list = << >> THEN << >>
  ELSE InsertByForm(SortByForm(SubSeq(list, 1, Len(list) - 1)), list[Len(list)])

\* .slice(0, n)
Slice(list, n) == SubSeq(list, 1, IF Len(list) < n THEN Len(list) ELSE n)

\* ------------------------------------------------- buildFPLGeneralSummary
TopPlayersSample == 10

FixtureDetail(fixture, teams) ==
  [kickoff_time |-> Nullish(fixture, "kickoff_time", Absent),
   home_team |-> StrOr(MapGet(teams, fixture, "team_h"), "name", "Unknown Team"),
   away_team |-> StrOr(MapGet(teams, fixture, "team_a"), "name", "Unknown Team"),
   home_difficulty |-> Nullish(fixture, "team_h_difficulty", 0),
   away_difficulty |-> Nullish(fixture, "team_a_difficulty", 0)]

\* Mutant: the fixtures of every gameweek from nextGameweekId on are listed.
RECURSIVE UpcomingFixturesFromNext(_, _, _)
UpcomingFixturesFromNext(fixtures, teams, nextGameweekId) ==
  IF fixtures = << >> \/ nextGameweekId = 0 THEN << >>
  ELSE (IF Has(Head(fixtures), "event") /\ Head(fixtures).event >= nextGameweekId
        THEN <<FixtureDetail(Head(fixtures), teams)>> ELSE << >>)
       \o UpcomingFixturesFromNext(Tail(fixtures), teams, nextGameweekId)

\* The loop of lines 425-439; nextGameweekId 0 stands for an absent one.
RECURSIVE UpcomingFixtures(_, _, _)
UpcomingFixtures(fixtures, teams, nextGameweekId) ==
  IF fixtures = << >> \/ nextGameweekId = 0 THEN << >>
  ELSE (IF Has(Head(fixtures), "event") /\ Head(fixtures).event = nextGameweekId
        THEN <<FixtureDetail(Head(fixtures), teams)>> ELSE << >>)
       \o UpcomingFixtures(Tail(fixtures), teams, nextGameweekId)

PlayerSummary(p_info, teams) ==
  [name |-> StrOr(p_info, "web_name", "Unknown"),
   team_name |-> StrOr(MapGet(teams, p_info, "team"), "name", "Unknown Team"),
   cost |-> Div10(NumOr(p_info, "now_cost", 0)),
   form |-> CharsOr(p_info, "form", <<"0">>),
   ict_index |-> StrOr(p_info, "ict_index", "0"),
   total_points |-> NumOr(p_info, "total_points", 0),
   expected_goal_involvements |-> Nullish(p_info, "expected_goal_involvements", "N/A")]

\* Mutant: the sort is done on bootstrapData.elements itself.
SortInPlace(elements) ==
  [source |-> SortByForm(elements), sorted |-> SortByForm(elements)]

\* [...elements].sort(cmp): sort rearranges the array it is called on, which
\* is the spread copy; source is what bootstrapData.elements holds afterwards.
SpreadAndSort(elements) ==
  [source |-> elements, sorted |-> SortByForm(elements)]

BuildFPLGeneralSummary(bootstrapData, allFixturesData, nextGameweekId) ==
  LET top == Slice(SpreadAndSort(bootstrapData.elements).sorted, TopPlayersSample) IN
  [next_gameweek_id |-> nextGameweekId,
   upcoming_fixtures_next_gw |->
     UpcomingFixtures(allFixturesData, bootstrapData.teams, nextGameweekId),
   top_performing_players_sample |->
     [i \in DOMAIN top |-> PlayerSummary(top[i], bootstrapData.teams)]]

\* ------------------------------------------- constructOpenAIPromptForJSON
FreeTransfersSentinel ==
  "Not specified by user; assume 1 FT if unsure, but confirm with user if critical."

\* Mutant: an empty hint is replaced by the fixed sentence as well.
ConstructPromptSentinelWhenEmpty(userContext, fplGeneralSummary, manualFreeTransfers) ==
  LET ftForPrompt == IF Truthy(manualFreeTransfers) THEN manualFreeTransfers
                     ELSE FreeTransfersSentinel
  IN [ftForPrompt |-> ftForPrompt,
      team_picks |-> userContext.team_picks,
      bank |-> userContext.bank,
      transfers_made_this_gw |-> userContext.transfers_made_this_gw,
      active_chip |-> OrElse(userContext.active_chip, "None"),
      available_chips |-> IF userContext.available_chips = << >> THEN <<"None">>
                          ELSE userContext.available_chips,
      next_gameweek_id |-> fplGeneralSummary.next_gameweek_id,
      upcoming_fixtures_next_gw |-> fplGeneralSummary.upcoming_fixtures_next_gw,
      top_performing_players_sample |-> fplGeneralSummary.top_performing_players_sample]

\* The prompt is the fixed instruction text with these values filled in.
ConstructOpenAIPromptForJSON(userContext, fplGeneralSummary, manualFreeTransfers) ==
  LET ftForPrompt == IF manualFreeTransfers # Absent THEN manualFreeTransfers
                     ELSE FreeTransfersSentinel
  IN [ftForPrompt |-> ftForPrompt,
      team_picks |-> userContext.team_picks,
      bank |-> userContext.bank,
      transfers_made_this_gw |-> userContext.transfers_made_this_gw,
      active_chip |-> OrElse(userContext.active_chip, "None"),
      available_chips |-> IF userContext.available_chips = << >> THEN <<"None">>
                          ELSE userContext.available_chips,
      next_gameweek_id |-> fplGeneralSummary.next_gameweek_id,
      upcoming_fixtures_next_gw |-> fplGeneralSummary.upcoming_fixtures_next_gw,
      top_performing_players_sample |-> fplGeneralSummary.top_performing_players_sample]

\* ------------------------------------------------------------------ state
VARIABLES
  OPENAI_API_KEY, FPL_BASE_URL, FPL_TEAM_ID, FPL_SESSION, \* process.env, read once
  openai,            \* the module-level completion client, Absent if never built
  request,           \* the query parameters of the request
  pc,                \* where GET is suspended
  teamIdToUse, bootstrapData, allFixturesData,
  currentGameweekId, nextGameweekId,       \* 0 until determined
  myPicksRaw, userFPLContext, fplGeneralSummary, prompt,
  messageContent, aiSuggestionObject,
  calls,             \* the outbound calls issued so far, in order
  caught,            \* the error the catch block received, if any
  raised,            \* the error that escaped GET, if any
  response,          \* what the client receives
  active,            \* the request whose invocation of GET the above belong to
  suspended,         \* the invocation of GET of another request, waiting
  structuredAdvice, isLoading, error, apiMeta,   \* the component's state
  manualFreeTransfers, teamId,                   \* its two input fields
  timers,            \* the timeouts it has set and that have not fired
  variant            \* which of the two copies of the component is mounted

config == <<OPENAI_API_KEY, FPL_BASE_URL, FPL_TEAM_ID, FPL_SESSION, openai>>
locals == <<teamIdToUse, bootstrapData, allFixturesData, currentGameweekId,
            nextGameweekId, myPicksRaw, userFPLContext, fplGeneralSummary,
            prompt, messageContent, aiSuggestionObject>>
others == <<active, suspended>>
client == <<structuredAdvice, isLoading, error, apiMeta, manualFreeTransfers, teamId,
            timers, variant>>
vars == <<config, request, pc, locals, calls, caught, raised, response, others, client>>

NoError == [thrown |-> FALSE, message |-> << >>]
ErrorOf(msg) == [thrown |-> TRUE, message |-> msg]
NoResponse == [status |-> 0, body |-> JUndefined]

\* No other request is being handled.
NoFrame == [id |-> 0]
\* The two copies of the component: they differ in how fetchAdvice ends.
Variants == {"FPLAdvisorClient.js", "part_000"}
\* What the two input fields hold at first, character by character.
DefaultFreeTransfers == <<"1">>
DefaultTeamId == <<"5", "2", "5", "3", "3", "0", "7">>
\* The state useState sets up (lines 46-51), no timeout pending.
InitialState ==
  /\ structuredAdvice = JNull
  /\ isLoading = FALSE
  /\ error = JNull
  /\ apiMeta = JNull
  /\ manualFreeTransfers = DefaultFreeTransfers
  /\ teamId = DefaultTeamId
  /\ timers = 0
\* The component of src/components, mounted and untouched.
Mounted == InitialState /\ variant = "FPLAdvisorClient.js"
\* One request handled by the route, the component untouched.
OneRequest == active = 1 /\ suspended = NoFrame /\ Mounted

\* NextResponse.json(body, {status})
JsonResponse(status, body) == [status |-> status, body |-> body]
ErrorBody(msg) == JObj(<<Member("error", JStr(msg))>>)

\* The data the catalog and fixtures endpoints serve in this model.
SampleTeams == <<[id |-> 1, name |-> "Arsenal"], [id |-> 2, name |-> "Chelsea"]>>
SampleElements ==
  <<[id |-> 1, team |-> 1, web_name |-> "Saka", now_cost |-> 105,
     form |-> <<"5", ".", "5">>, total_points |-> 80],
    [id |-> 2, team |-> 2, web_name |-> "Palmer", now_cost |-> 110,
     form |-> <<"7", ".", "0">>, total_points |-> 95]>>
Catalogs ==
  {[type |-> "object", events |-> ev, elements |-> SampleElements, teams |-> SampleTeams] :
     ev \in EventLists}
SampleFixtures ==
  <<[event |-> 1, team_h |-> 1, team_a |-> 2, team_h_difficulty |-> 3,
     team_a_difficulty |-> 4, kickoff_time |-> "t1"],
    [event |-> 2, team_h |-> 2, team_a |-> 1, team_h_difficulty |-> 2,
     team_a_difficulty |-> 3, kickoff_time |-> "t2"]>>
SamplePicks ==
  [type |-> "object",
   picks |-> <<[element |-> 1, position |-> 1, is_captain |-> TRUE,
                is_vice_captain |-> FALSE],
               [element |-> 9, position |-> 2, is_captain |-> FALSE,
                is_vice_captain |-> TRUE]>>,
   entry_history |-> [bank |-> 15, event_transfers |-> 1],
   chips |-> <<[name |-> "wildcard", status_for_event |-> "available"],
               [name |-> "bboost", status_for_event |-> "played"]>>]
\* The picks endpoint answers with the picks or with a JSON null.
PicksPayloads == {SamplePicks, JNull}

Init ==
  /\ OPENAI_API_KEY \in {Absent, "sk-key"}
  /\ FPL_BASE_URL \in {Absent, "https://fpl"}
  /\ FPL_TEAM_ID \in {Absent, "env-team"}
  /\ FPL_SESSION \in {Absent, "session"}
  /\ openai = IF Truthy(OPENAI_API_KEY) THEN "client" ELSE Absent
  /\ request \in [teamId : {Absent, "", "ui-team"}, freeTransfers : {Absent, "2"}]
  /\ pc = "start"
  /\ teamIdToUse = Absent
  /\ bootstrapData = JUndefined
  /\ allFixturesData = << >>
  /\ currentGameweekId = 0
  /\ nextGameweekId = 0
  /\ myPicksRaw = JUndefined
  /\ userFPLContext = JUndefined
  /\ fplGeneralSummary = JUndefined
  /\ prompt = JUndefined
  /\ messageContent = JUndefined
  /\ aiSuggestionObject = JUndefined
  /\ calls = << >>
  /\ caught = NoError
  /\ raised = NoError
  /\ response = NoResponse
  /\ OneRequest

\* ------------------------------------------------------------ GET: pieces
\* An outbound call and how it settled.
Call(api, gameweek, team) ==
  [api |-> api, gameweek |-> gameweek, team |-> team, outcome |-> "pending"]
\* calls, with the pending (last) call settled.
Settled(threw) ==
  [calls EXCEPT ![Len(calls)].outcome = IF threw THEN "rejected" ELSE "fulfilled"]

\* Mutant: the team identifier is not checked.
ConfigErrorWithoutTeamCheck(team) ==
  IF ~Truthy(OPENAI_API_KEY) \/ openai = Absent
  THEN <<"OpenAI API key not configured.">>
  ELSE IF ~Truthy(FPL_BASE_URL) THEN <<"FPL Base URL not configured.">>
  ELSE IF ~Truthy(FPL_SESSION) THEN <<"FPL Session ID not configured.">>
  ELSE << >>

\* Mutant: the session credential is not checked (fetchMyPicks then skips
\* the fetch and GET answers with the fixed suggestion).
ConfigErrorWithoutSessionCheck(team) ==
  IF ~Truthy(OPENAI_API_KEY) \/ openai = Absent
  THEN <<"OpenAI API key not configured.">>
  ELSE IF ~Truthy(FPL_BASE_URL) THEN <<"FPL Base URL not configured.">>
  ELSE IF ~Truthy(team) THEN <<"FPL Team ID not configured or provided.">>
  ELSE << >>

\* The four configuration checks, in the order of the code: the message of
\* the first one that fails, << >> when all pass.
ConfigError(team) ==
  IF ~Truthy(OPENAI_API_KEY) \/ openai = Absent
  THEN <<"OpenAI API key not configured.">>
  ELSE IF ~Truthy(FPL_BASE_URL) THEN <<"FPL Base URL not configured.">>
  ELSE IF ~Truthy(team) THEN <<"FPL Team ID not configured or provided.">>
  ELSE IF ~Truthy(FPL_SESSION) THEN <<"FPL Session ID not configured.">>
  ELSE << >>

\* events.find(pred): the index of the first record with the flag, 0 if none.
FindEvent(events, flag) ==
  LET hits == {i \in DOMAIN events : events[i][flag]} IN
  IF hits = {} THEN 0 ELSE CHOOSE i \in hits : \A j \in hits : i <= j

\* Mutant: the is_next record stands in for a missing is_current record.
CurrentEventOrNext(events) ==
  IF FindEvent(events, "is_current") # 0 THEN FindEvent(events, "is_current")
  ELSE FindEvent(events, "is_next")

\* bootstrapData.events.find((event) => event.is_current)
CurrentEvent(events) == FindEvent(events, "is_current")

\* Mutant: no fallback to the current gameweek.
NextGameweekIdNoFallback(events, currentId) ==
  IF FindEvent(events, "is_next") # 0
  THEN events[FindEvent(events, "is_next")].id
  ELSE 0

\* nextEvent ? nextEvent.id : currentGameweekId
NextGameweekId(events, currentId) ==
  IF FindEvent(events, "is_next") # 0
  THEN events[FindEvent(events, "is_next")].id
  ELSE currentId

\* Mutant: the picks are fetched for the next gameweek.
PicksGameweekNext(currentId, nextId) == nextId

\* The gameweek the picks are fetched for: fetchMyPicks(currentGameweekId, ...).
PicksGameweek(currentId, nextId) == currentId

\* Mutant: only the team identifier is looked at.
SkipsFetchMyPicksTeamOnly(team) == ~Truthy(team)

\* fetchMyPicks returns null without a call when this holds.
SkipsFetchMyPicks(team) == ~Truthy(team) \/ ~Truthy(FPL_SESSION)

EmptyMessage == <<"OpenAI returned an empty message.">>
InvalidJsonMessage ==
  <<"Failed to parse AI response. The AI did not return valid JSON.">>

\* Mutant: the raw reply is not kept on a parse failure.
ValidateReplyWithoutRaw(content) ==
  IF JTruthy(content)
  THEN LET parsed == JSONParse(content.s) IN
       IF parsed.threw
       THEN JObj(<<Member("error", JStr(InvalidJsonMessage))>>)
       ELSE parsed.value
  ELSE JObj(<<Member("error", JStr(EmptyMessage))>>)

\* Mutant: a parsed reply that is not an object is turned into the error
\* object.
ValidateReplyObjectsOnly(content) ==
  IF JTruthy(content)
  THEN LET parsed == JSONParse(content.s) IN
       IF parsed.threw \/ ~IsObject(parsed.value)
       THEN JObj(<<Member("error", JStr(InvalidJsonMessage)),
                   Member("rawResponse", JStr(content.s))>>)
       ELSE parsed.value
  ELSE JObj(<<Member("error", JStr(EmptyMessage))>>)

\* Mutant: an empty reply is reported as a parse failure.
ValidateReplyEmptyAsInvalid(content) ==
  IF JTruthy(content)
  THEN LET parsed == JSONParse(content.s) IN
       IF parsed.threw
       THEN JObj(<<Member("error", JStr(InvalidJsonMessage)),
                   Member("rawResponse", JStr(content.s))>>)
       ELSE parsed.value
  ELSE JObj(<<Member("error", JStr(InvalidJsonMessage))>>)

\* The reply validation of GET: the parsed reply, or an error object.
ValidateReply(content) ==
  IF JTruthy(content)
  THEN LET parsed == JSONParse(content.s) IN
       IF parsed.threw
       THEN JObj(<<Member("error", JStr(InvalidJsonMessage)),
                   Member("rawResponse", JStr(content.s))>>)
       ELSE parsed.value
  ELSE JObj(<<Member("error", JStr(EmptyMessage))>>)

NotAvailable == JStr(<<"N/A - User data not available.">>)
\* The object returned when there are no picks.
NoPicksSuggestion(team) ==
  JObj(<<Member("error",
                JStr(<<"Cannot provide personalized FPL advice. FPL User data not available for Team ID: ",
                       team, ". Ensure FPL_SESSION is valid.">>)),
         Member("promisingTeamsNextGW", JStr(<<"N/A - General data not available.">>)),
         Member("transferStrategy", NotAvailable),
         Member("captainPicks", NotAvailable),
         Member("startingLineup", NotAvailable),
         Member("benchOrder", NotAvailable),
         Member("chipStrategy", NotAvailable),
         Member("playersToWatch", NotAvailable)>>)

\* The success response: NextResponse.json(envelope), status 200.
Envelope(currentId, nextId, team, suggestion) ==
  JsonResponse(200,
    JObj(<<Member("message", JStr(<<"FPL Advisor API request processed.">>)),
           Member("currentGameweek", JNum(currentId)),
           Member("nextGameweekForAdvice", JNum(nextId)),
           Member("teamIdUsed", JStr(<<team>>)),
           Member("aiStructuredSuggestion", suggestion)>>))

\* error.message || "An internal server error occurred"
MessageOrDefault(msg) ==
  IF msg # << >> THEN msg ELSE <<"An internal server error occurred">>

\* The bindings the catch block can see: the module's and GET's parameter,
\* plus its own error.  aiSuggestionObject is declared with let inside the
\* try block, so the catch block does not see it.
CatchScope ==
  {"FPL_BASE_URL", "FPL_TEAM_ID", "FPL_SESSION", "OPENAI_API_KEY", "openai",
   "NextResponse", "request", "error"}

\* The catch block of GET run on an error: reading a name that is not in
\* scope raises a ReferenceError out of GET, which the hosting framework
\* answers with a bodyless 500; otherwise the block returns its own 500.
CatchBlock(msg, suggestion) ==
  IF "aiSuggestionObject" \notin CatchScope
  THEN [raised |-> ErrorOf(<<"ReferenceError: aiSuggestionObject is not defined">>),
        response |-> JsonResponse(500, JUndefined)]
  ELSE [raised |-> NoError,
        response |->
          JsonResponse(500,
            JObj(<<Member("error", JStr(MessageOrDefault(msg))),
                   Member("aiStructuredSuggestion",
                          IF JTruthy(suggestion) THEN suggestion
                          ELSE ErrorBody(MessageOrDefault(msg)))>>))]

\* Mutant: a call that threw is attempted again.
CaughtAndRetried(msg) ==
  /\ calls' = Append(Settled(TRUE), [calls[Len(calls)] EXCEPT !.outcome = "pending"])
  /\ caught' = ErrorOf(msg)
  /\ UNCHANGED <<raised, response, pc>>

\* GET leaves through its catch block: the pending call threw.
Caught(msg) ==
  /\ calls' = Settled(TRUE)
  /\ caught' = ErrorOf(msg)
  /\ raised' = CatchBlock(msg, aiSuggestionObject).raised
  /\ response' = CatchBlock(msg, aiSuggestionObject).response
  /\ pc' = "done"

\* GET returns a response.
Returned(resp) ==
  /\ response' = resp
  /\ pc' = "done"
  /\ UNCHANGED <<caught, raised>>

\* GET suspends on an outbound call, issued after the calls in issued.
Awaits(issued, call, where) ==
  /\ calls' = Append(issued, call)
  /\ pc' = where
  /\ UNCHANGED <<caught, raised, response>>

\* ----------------------------------------------------------- GET: actions
\* Lines 527-563: read the query, check the configuration, start the
\* catalog fetch.
GETStart ==
  /\ pc = "start"
  /\ LET team == OrElse(request.teamId, FPL_TEAM_ID) IN
     /\ teamIdToUse' = team
     /\ IF ConfigError(team) # << >>
        THEN /\ Returned(JsonResponse(500, ErrorBody(ConfigError(team))))
             /\ UNCHANGED calls
        ELSE Awaits(calls, Call("bootstrap", 0, Absent), "awaitBootstrap")
  /\ UNCHANGED <<config, others, client, request, bootstrapData, allFixturesData, currentGameweekId,
                 nextGameweekId, myPicksRaw, userFPLContext, fplGeneralSummary,
                 prompt, messageContent, aiSuggestionObject>>

\* Lines 563-564: the catalog fetch settles; on success the fixtures fetch
\* starts.
BootstrapSettles ==
  /\ pc = "awaitBootstrap"
  /\ \E reply \in FailingReplies \cup OkReplies(Catalogs) :
       LET r == FetchData(reply) IN
       IF r.threw
       THEN /\ Caught(r.error)
            /\ UNCHANGED bootstrapData
       ELSE /\ bootstrapData' = r.value
            /\ Awaits(Settled(FALSE), Call("fixtures", 0, Absent), "awaitFixtures")
  /\ UNCHANGED <<config, others, client, request, teamIdToUse, allFixturesData, currentGameweekId,
                 nextGameweekId, myPicksRaw, userFPLContext, fplGeneralSummary,
                 prompt, messageContent, aiSuggestionObject>>

\* Lines 564-589: the fixtures fetch settles; on success the gameweeks are
\* determined and fetchMyPicks is called.
FixturesSettles ==
  /\ pc = "awaitFixtures"
  /\ \E reply \in FailingReplies \cup OkReplies({SampleFixtures}) :
       LET r == FetchData(reply)
           current == CurrentEvent(bootstrapData.events)
           currentId == bootstrapData.events[current].id
           nextId == NextGameweekId(bootstrapData.events, currentId)
       IN
       IF r.threw
       THEN /\ Caught(r.error)
            /\ UNCHANGED <<allFixturesData, currentGameweekId, nextGameweekId,
                           myPicksRaw, aiSuggestionObject>>
       ELSE /\ allFixturesData' = r.value
            /\ IF current = 0
               THEN /\ Returned(JsonResponse(500,
                          ErrorBody(<<"Could not determine current gameweek.">>)))
                    /\ calls' = Settled(FALSE)
                    /\ UNCHANGED <<currentGameweekId, nextGameweekId, myPicksRaw,
                                   aiSuggestionObject>>
               ELSE /\ currentGameweekId' = currentId
                    /\ nextGameweekId' = nextId
                    /\ IF SkipsFetchMyPicks(teamIdToUse)
                       THEN /\ myPicksRaw' = JNull
                            /\ aiSuggestionObject' = NoPicksSuggestion(teamIdToUse)
                            /\ Returned(Envelope(currentId, nextId, teamIdToUse,
                                                 NoPicksSuggestion(teamIdToUse)))
                            /\ calls' = Settled(FALSE)
                       ELSE /\ Awaits(Settled(FALSE),
                                      Call("picks", PicksGameweek(currentId, nextId),
                                           teamIdToUse), "awaitPicks")
                            /\ UNCHANGED <<myPicksRaw, aiSuggestionObject>>
  /\ UNCHANGED <<config, others, client, request, teamIdToUse, bootstrapData, userFPLContext,
                 fplGeneralSummary, prompt, messageContent>>

\* Lines 589-618 and 637-659: the picks fetch settles; with picks the
\* contexts and the prompt are built and the completion is requested,
\* without picks the fixed suggestion is returned.
PicksSettles ==
  /\ pc = "awaitPicks"
  /\ \E reply \in FailingReplies \cup OkReplies(PicksPayloads) :
       LET r == FetchData(reply)
           context == BuildUserFPLContext(r.value, bootstrapData)
           summary == BuildFPLGeneralSummary(bootstrapData, allFixturesData,
                                             nextGameweekId)
       IN
       IF r.threw
       THEN /\ Caught(r.error)
            /\ UNCHANGED <<myPicksRaw, userFPLContext, fplGeneralSummary, prompt,
                           aiSuggestionObject>>
       ELSE /\ myPicksRaw' = r.value
            /\ IF JTruthy(r.value)
               THEN /\ aiSuggestionObject' = JNull
                    /\ userFPLContext' = context
                    /\ fplGeneralSummary' = summary
                    /\ prompt' = ConstructOpenAIPromptForJSON(context, summary,
                                                              request.freeTransfers)
                    /\ Awaits(Settled(FALSE), Call("completion", 0, Absent),
                              "awaitCompletion")
               ELSE /\ aiSuggestionObject' = NoPicksSuggestion(teamIdToUse)
                    /\ Returned(Envelope(currentGameweekId, nextGameweekId, teamIdToUse,
                                         NoPicksSuggestion(teamIdToUse)))
                    /\ calls' = Settled(FALSE)
                    /\ UNCHANGED <<userFPLContext, fplGeneralSummary, prompt>>
  /\ UNCHANGED <<config, others, client, request, teamIdToUse, bootstrapData, allFixturesData,
                 currentGameweekId, nextGameweekId, messageContent>>

\* What openai.chat.completions.create and the read of
\* completion.choices[0].message.content can give: the client throws on a
\* transport error and on a non-success status, the read throws when there
\* is no choice, and the content is null or a string.
CompletionOutcomes ==
  {Throw(<<"Connection error.">>),
   Throw(<<"429 ", "Rate limit reached">>),
   Throw(<<"TypeError: Cannot read properties of undefined (reading 'message')">>),
   Return(JNull)}
  \cup {Return(JStr(text)) : text \in TextsUpTo(MaxReplyLen)}

\* Lines 610-659: the completion settles; its reply is validated and the
\* envelope returned.
CompletionSettles ==
  /\ pc = "awaitCompletion"
  /\ \E r \in CompletionOutcomes :
       IF r.threw
       THEN /\ Caught(r.error)
            /\ UNCHANGED <<messageContent, aiSuggestionObject>>
       ELSE /\ messageContent' = r.value
            /\ aiSuggestionObject' = ValidateReply(r.value)
            /\ calls' = Settled(FALSE)
            /\ Returned(Envelope(currentGameweekId, nextGameweekId, teamIdToUse,
                                 ValidateReply(r.value)))
  /\ UNCHANGED <<config, others, client, request, teamIdToUse, bootstrapData, allFixturesData,
                 currentGameweekId, nextGameweekId, myPicksRaw, userFPLContext,
                 fplGeneralSummary, prompt>>

Next ==
  \/ GETStart
  \/ BootstrapSettles
  \/ FixturesSettles
  \/ PicksSettles
  \/ CompletionSettles

Spec == Init /\ [][Next]_vars

\* ============================================ buildUserFPLContext on its own
\* The builder applied to picks payloads and catalogs of bounded size.
MaxPicks == 2
MaxChips == 3

\* rec with field f set to v.
With(rec, f, v) == [x \in DOMAIN rec \cup {f} |-> IF x = f THEN v ELSE rec[x]]

\* A catalog with a player whose team is not among the teams (player 3) and
\* an empty catalog.
BuilderElements ==
  SampleElements \o
  <<[id |-> 3, team |-> 7, web_name |-> "Isak", now_cost |-> 1005,
     form |-> <<"3", ".", "0">>, total_points |-> 60]>>
BuilderCatalogs ==
  {[type |-> "object", events |-> << >>, elements |-> BuilderElements,
    teams |-> SampleTeams],
   [type |-> "object", events |-> << >>, elements |-> << >>, teams |-> << >>]}

\* Pick lists: pick i has position i, the first pick is the captain and the
\* second the vice captain; player 9 is in no catalog.
PickedIds == {1, 3, 9}
PickList(ids) ==
  [i \in DOMAIN ids |-> [element |-> ids[i], position |-> i, is_captain |-> i = 1,
                         is_vice_captain |-> i = 2]]
PickLists == UNION {{PickList(ids) : ids \in [1..k -> PickedIds]} : k \in 0..MaxPicks}

\* Chip lists: chip i carries the i-th name and any of the statuses.
ChipNames == <<"wildcard", "bboost", "3xc", "freehit">>
ChipStatuses == {"available", "played", "unavailable"}
ChipList(statuses) ==
  [i \in DOMAIN statuses |-> [name |-> ChipNames[i], status_for_event |-> statuses[i]]]
ChipLists ==
  UNION {{ChipList(st) : st \in [1..k -> ChipStatuses]} : k \in 0..MaxChips}

\* entry_history records, the bank in tenths.
EntryHistories ==
  {[event_transfers |-> 1]} \cup {[bank |-> b, event_transfers |-> 1] : b \in {0, 15, 1005}}

\* The picks payloads: entry_history and chips may be missing.
PicksInputs ==
  LET bare == {[type |-> "object", picks |-> p] : p \in PickLists}
      withHistory == bare \cup {With(r, "entry_history", h) : r \in bare, h \in EntryHistories}
  IN withHistory \cup {With(r, "chips", c) : r \in withHistory, c \in ChipLists}

InitContext ==
  /\ OPENAI_API_KEY = Absent
  /\ FPL_BASE_URL = Absent
  /\ FPL_TEAM_ID = Absent
  /\ FPL_SESSION = Absent
  /\ openai = Absent
  /\ request = [teamId |-> Absent, freeTransfers |-> Absent]
  /\ pc = "inputs"
  /\ teamIdToUse = Absent
  /\ bootstrapData \in BuilderCatalogs
  /\ allFixturesData = << >>
  /\ currentGameweekId = 0
  /\ nextGameweekId = 0
  /\ myPicksRaw \in PicksInputs
  /\ userFPLContext = JUndefined
  /\ fplGeneralSummary = JUndefined
  /\ prompt = JUndefined
  /\ messageContent = JUndefined
  /\ aiSuggestionObject = JUndefined
  /\ calls = << >>
  /\ caught = NoError
  /\ raised = NoError
  /\ response = NoResponse
  /\ OneRequest

\* const userFPLContext = buildUserFPLContext(myPicksRaw, bootstrapData)
BuildsUserContext ==
  /\ pc = "inputs"
  /\ userFPLContext' = BuildUserFPLContext(myPicksRaw, bootstrapData)
  /\ pc' = "built"
  /\ UNCHANGED <<config, others, client, request, teamIdToUse, bootstrapData, allFixturesData,
                 currentGameweekId, nextGameweekId, myPicksRaw, fplGeneralSummary,
                 prompt, messageContent, aiSuggestionObject, calls, caught, raised,
                 response>>

NextContext == BuildsUserContext

SpecContext == InitContext /\ [][NextContext]_vars

\* ========================================= buildFPLGeneralSummary on its own
\* The builder applied, twice in a row, to catalogs of bounded size with the
\* sample fixtures and to fixture lists of bounded size with the sample
\* catalog.
MaxPlayers == 3
MaxFixtures == 4

\* The form of a player: missing, empty, not a number, or a number.
MissingForm == <<Absent>>
FormPool == {MissingForm, << >>, <<"x">>, <<"5", ".", "5">>, <<"7", ".", "0">>}
\* The form the other players of a long catalog have.
CommonForm == <<"6", ".", "0">>

\* Player i of a catalog: id i, a name of its own, the given form.
Player(i, form) ==
  LET base == [id |-> i, team |-> 1, web_name |-> "P" \o ToString(i), now_cost |-> 50,
               total_points |-> 10]
  IN IF form = MissingForm THEN base ELSE With(base, "form", form)

\* A player list: the given forms, followed by as many players of the common
\* form as the top-performers sample takes when the list is long.
PlayerList(forms, long) ==
  [i \in 1..(Len(forms) + IF long THEN TopPlayersSample ELSE 0) |->
     Player(i, IF i <= Len(forms) THEN forms[i] ELSE CommonForm)]
PlayerLists ==
  UNION {{PlayerList(forms, long) : forms \in [1..k -> FormPool], long \in BOOLEAN} :
           k \in 0..MaxPlayers}
SummaryCatalogs ==
  {[type |-> "object", events |-> << >>, elements |-> el, teams |-> SampleTeams] :
     el \in PlayerLists}
SampleCatalog ==
  [type |-> "object", events |-> << >>, elements |-> SampleElements,
   teams |-> SampleTeams]

\* Fixture i of a list: a kickoff time of its own and the given gameweek, no
\* gameweek (a postponed fixture) when it is 0.
FixtureEvents == {0, 1, 2, 3}
Fixture(i, event) ==
  LET base == [team_h |-> 1, team_a |-> 2, team_h_difficulty |-> 3,
               team_a_difficulty |-> 4, kickoff_time |-> "t" \o ToString(i)]
  IN IF event = 0 THEN base ELSE With(base, "event", event)
FixtureLists ==
  UNION {{[i \in 1..k |-> Fixture(i, ev[i])] : ev \in [1..k -> FixtureEvents]} :
           k \in 0..MaxFixtures}

InitSummary ==
  /\ OPENAI_API_KEY = Absent
  /\ FPL_BASE_URL = Absent
  /\ FPL_TEAM_ID = Absent
  /\ FPL_SESSION = Absent
  /\ openai = Absent
  /\ request = [teamId |-> Absent, freeTransfers |-> Absent]
  /\ pc = "inputs"
  /\ teamIdToUse = Absent
  /\ \/ bootstrapData \in SummaryCatalogs /\ allFixturesData = SampleFixtures
     \/ bootstrapData = SampleCatalog /\ allFixturesData \in FixtureLists
  /\ currentGameweekId = 0
  /\ nextGameweekId \in FixtureEvents
  /\ myPicksRaw = JUndefined
  /\ userFPLContext = JUndefined
  /\ fplGeneralSummary = JUndefined
  /\ prompt = JUndefined
  /\ messageContent = JUndefined
  /\ aiSuggestionObject = JUndefined
  /\ calls = << >>
  /\ caught = NoError
  /\ raised = NoError
  /\ response = NoResponse
  /\ OneRequest

\* const fplGeneralSummary = buildFPLGeneralSummary(bootstrapData,
\* allFixturesData, nextGameweekId), run a first and a second time.
BuildsSummary ==
  /\ pc \in {"inputs", "once"}
  /\ fplGeneralSummary' =
       BuildFPLGeneralSummary(bootstrapData, allFixturesData, nextGameweekId)
  /\ bootstrapData' =
       [bootstrapData EXCEPT !.elements = SpreadAndSort(bootstrapData.elements).source]
  /\ pc' = IF pc = "inputs" THEN "once" ELSE "twice"
  /\ UNCHANGED <<config, others, client, request, teamIdToUse, allFixturesData, currentGameweekId,
                 nextGameweekId, myPicksRaw, userFPLContext, prompt, messageContent,
                 aiSuggestionObject, calls, caught, raised, response>>

NextSummary == BuildsSummary

SpecSummary == InitSummary /\ [][NextSummary]_vars

\* ================================================ composing the prompt
\* Lines 528 and 593-608 of GET on their own: the hint read from the query
\* goes, with the two contexts, into the prompt.
\* searchParams.get("freeTransfers"): Absent when the query has no such
\* parameter, otherwise its value, whatever it is.
FreeTransfersHints == {Absent, "", " ", "abc", "two", "-1", "2.5", "0", "1", "2"}

InitPrompt ==
  /\ OPENAI_API_KEY = Absent
  /\ FPL_BASE_URL = Absent
  /\ FPL_TEAM_ID = Absent
  /\ FPL_SESSION = Absent
  /\ openai = Absent
  /\ request \in [teamId : {Absent}, freeTransfers : FreeTransfersHints]
  /\ pc = "inputs"
  /\ teamIdToUse = Absent
  /\ bootstrapData \in BuilderCatalogs
  /\ allFixturesData = SampleFixtures
  /\ currentGameweekId = 1
  /\ nextGameweekId = 2
  /\ myPicksRaw \in {With([type |-> "object", picks |-> p], "entry_history", h) :
                       p \in PickLists, h \in EntryHistories}
  /\ userFPLContext = JUndefined
  /\ fplGeneralSummary = JUndefined
  /\ prompt = JUndefined
  /\ messageContent = JUndefined
  /\ aiSuggestionObject = JUndefined
  /\ calls = << >>
  /\ caught = NoError
  /\ raised = NoError
  /\ response = NoResponse
  /\ OneRequest

ComposesPrompt ==
  /\ pc = "inputs"
  /\ LET context == BuildUserFPLContext(myPicksRaw, bootstrapData)
         summary == BuildFPLGeneralSummary(bootstrapData, allFixturesData,
                                           nextGameweekId)
     IN /\ userFPLContext' = context
        /\ fplGeneralSummary' = summary
        /\ prompt' = ConstructOpenAIPromptForJSON(context, summary,
                                                  request.freeTransfers)
  /\ pc' = "composed"
  /\ UNCHANGED <<config, others, client, request, teamIdToUse, bootstrapData, allFixturesData,
                 currentGameweekId, nextGameweekId, myPicksRaw, messageContent,
                 aiSuggestionObject, calls, caught, raised, response>>

NextPrompt == ComposesPrompt

SpecPrompt == InitPrompt /\ [][NextPrompt]_vars

\* ======================================================= fetchMyPicks alone
\* fetchMyPicks(gameweek, teamIdToUse) called with any team identifier,
\* under any session credential; currentGameweekId holds the gameweek
\* argument, myPicksRaw the value returned, raised the rejection.
TeamIds == {Absent, "", "ui-team", "env-team"}
Sessions == {Absent, "", "session", "expired"}

InitPicks ==
  /\ OPENAI_API_KEY = Absent
  /\ FPL_BASE_URL = "https://fpl"
  /\ FPL_TEAM_ID = Absent
  /\ FPL_SESSION \in Sessions
  /\ openai = Absent
  /\ request = [teamId |-> Absent, freeTransfers |-> Absent]
  /\ pc = "inputs"
  /\ teamIdToUse \in TeamIds
  /\ bootstrapData = JUndefined
  /\ allFixturesData = << >>
  /\ currentGameweekId \in 1..MaxEvents
  /\ nextGameweekId = 0
  /\ myPicksRaw = JUndefined
  /\ userFPLContext = JUndefined
  /\ fplGeneralSummary = JUndefined
  /\ prompt = JUndefined
  /\ messageContent = JUndefined
  /\ aiSuggestionObject = JUndefined
  /\ calls = << >>
  /\ caught = NoError
  /\ raised = NoError
  /\ response = NoResponse
  /\ OneRequest

\* Lines 351-368: the guard, then the fetch.
FetchMyPicksCalled ==
  /\ pc = "inputs"
  /\ IF SkipsFetchMyPicks(teamIdToUse)
     THEN /\ myPicksRaw' = JNull
          /\ pc' = "returned"
          /\ UNCHANGED calls
     ELSE /\ calls' = Append(calls, Call("picks", currentGameweekId, teamIdToUse))
          /\ pc' = "fetching"
          /\ UNCHANGED myPicksRaw
  /\ UNCHANGED <<config, others, client, request, teamIdToUse, bootstrapData, allFixturesData,
                 currentGameweekId, nextGameweekId, userFPLContext, fplGeneralSummary,
                 prompt, messageContent, aiSuggestionObject, caught, raised, response>>

\* Line 368: fetchData settles and fetchMyPicks settles the same way.
FetchMyPicksSettles ==
  /\ pc = "fetching"
  /\ \E reply \in FailingReplies \cup OkReplies(PicksPayloads) :
       LET r == FetchData(reply) IN
       IF r.threw
       THEN /\ raised' = ErrorOf(r.error)
            /\ calls' = Settled(TRUE)
            /\ UNCHANGED myPicksRaw
       ELSE /\ myPicksRaw' = r.value
            /\ calls' = Settled(FALSE)
            /\ UNCHANGED raised
  /\ pc' = "returned"
  /\ UNCHANGED <<config, others, client, request, teamIdToUse, bootstrapData, allFixturesData,
                 currentGameweekId, nextGameweekId, userFPLContext, fplGeneralSummary,
                 prompt, messageContent, aiSuggestionObject, caught, response>>

NextPicks ==
  \/ FetchMyPicksCalled
  \/ FetchMyPicksSettles

SpecPicks == InitPicks /\ [][NextPicks]_vars

\* ========================================================== fetchData alone
\* fetchData called for one of the three data-provider endpoints and settled
\* by any reply; response holds what fetch gave (the response of line 318 or
\* the transport error), myPicksRaw the value fetchData returned and raised
\* the error it threw.
Endpoints == {"bootstrap", "fixtures", "picks"}
Statuses == {200, 204, 301, 400, 403, 404, 429, 500, 503}
BodyTexts == {<< >>, <<"Forbidden">>, <<"<html>", "Service Unavailable", "</html>">>}
NotFoundDetail == JObj(<<Member("detail", JStr(<<"Not found.">>))>>)
FetchReplies ==
  {TransportError(c) : c \in {<<"TypeError: fetch failed">>, <<"ECONNRESET">>, << >>}}
  \cup {HttpResponse(st, text, FALSE, JUndefined) : st \in Statuses, text \in BodyTexts}
  \cup {HttpResponse(st, <<"{\"detail\":\"Not found.\"}">>, TRUE, NotFoundDetail) :
          st \in Statuses}

InitFetch ==
  /\ OPENAI_API_KEY = Absent
  /\ FPL_BASE_URL = "https://fpl"
  /\ FPL_TEAM_ID = Absent
  /\ FPL_SESSION = "session"
  /\ openai = Absent
  /\ request = [teamId |-> Absent, freeTransfers |-> Absent]
  /\ pc = "inputs"
  /\ teamIdToUse = "ui-team"
  /\ bootstrapData = JUndefined
  /\ allFixturesData = << >>
  /\ currentGameweekId = 1
  /\ nextGameweekId = 0
  /\ myPicksRaw = JUndefined
  /\ userFPLContext = JUndefined
  /\ fplGeneralSummary = JUndefined
  /\ prompt = JUndefined
  /\ messageContent = JUndefined
  /\ aiSuggestionObject = JUndefined
  /\ calls = << >>
  /\ caught = NoError
  /\ raised = NoError
  /\ response = NoResponse
  /\ OneRequest

\* Line 318: fetch(url, options) is started and awaited.
FetchDataCalled ==
  /\ pc = "inputs"
  /\ \E api \in Endpoints :
       calls' = Append(calls, IF api = "picks"
                              THEN Call(api, currentGameweekId, teamIdToUse)
                              ELSE Call(api, 0, Absent))
  /\ pc' = "fetching"
  /\ UNCHANGED <<config, others, client, request, locals, caught, raised, response>>

\* Lines 318-333: fetch settles and fetchData returns or throws.
FetchDataSettles ==
  /\ pc = "fetching"
  /\ \E reply \in FetchReplies :
       LET r == FetchData(reply) IN
       /\ response' = reply
       /\ IF r.threw
          THEN /\ raised' = ErrorOf(r.error)
               /\ calls' = Settled(TRUE)
               /\ UNCHANGED myPicksRaw
          ELSE /\ myPicksRaw' = r.value
               /\ calls' = Settled(FALSE)
               /\ UNCHANGED raised
  /\ pc' = "returned"
  /\ UNCHANGED <<config, others, client, request, teamIdToUse, bootstrapData, allFixturesData,
                 currentGameweekId, nextGameweekId, userFPLContext, fplGeneralSummary,
                 prompt, messageContent, aiSuggestionObject, caught>>

NextFetch ==
  \/ FetchDataCalled
  \/ FetchDataSettles

SpecFetch == InitFetch /\ [][NextFetch]_vars

\* ==================================================== two requests at once
\* Two requests handled by the same module instance.  The event loop runs
\* one invocation of GET at a time and changes over only where the running
\* one awaits or has returned; an invocation that waits keeps its bindings
\* in suspended, the module-level bindings (config) are the same for both.

\* Mutant: teamIdToUse is a module-level binding.
RequestLocalsWithoutTeamId ==
  {"request", "bootstrapData", "allFixturesData", "currentGameweekId",
   "nextGameweekId", "myPicksRaw", "userFPLContext", "fplGeneralSummary", "prompt",
   "messageContent", "aiSuggestionObject"}

\* The bindings that belong to one invocation of GET: its parameter and the
\* const and let declarations of its body.
RequestLocals ==
  {"request", "teamIdToUse", "bootstrapData", "allFixturesData", "currentGameweekId",
   "nextGameweekId", "myPicksRaw", "userFPLContext", "fplGeneralSummary", "prompt",
   "messageContent", "aiSuggestionObject"}

\* The running invocation, as it is kept while it waits.
ActiveFrame ==
  [id |-> active, request |-> request, pc |-> pc, teamIdToUse |-> teamIdToUse,
   bootstrapData |-> bootstrapData, allFixturesData |-> allFixturesData,
   currentGameweekId |-> currentGameweekId, nextGameweekId |-> nextGameweekId,
   myPicksRaw |-> myPicksRaw, userFPLContext |-> userFPLContext,
   fplGeneralSummary |-> fplGeneralSummary, prompt |-> prompt,
   messageContent |-> messageContent, aiSuggestionObject |-> aiSuggestionObject,
   calls |-> calls, caught |-> caught, raised |-> raised, response |-> response]

\* An invocation that has not begun.
NewFrame(id, req) ==
  [id |-> id, request |-> req, pc |-> "start", teamIdToUse |-> Absent,
   bootstrapData |-> JUndefined, allFixturesData |-> << >>,
   currentGameweekId |-> 0, nextGameweekId |-> 0,
   myPicksRaw |-> JUndefined, userFPLContext |-> JUndefined,
   fplGeneralSummary |-> JUndefined, prompt |-> JUndefined,
   messageContent |-> JUndefined, aiSuggestionObject |-> JUndefined,
   calls |-> << >>, caught |-> NoError, raised |-> NoError, response |-> NoResponse]

\* What a binding holds when the waiting invocation goes on: its own value
\* if the binding belongs to the invocation, the present value otherwise.
Resumed(name, present, own) == IF name \in RequestLocals THEN own ELSE present

InitTwo ==
  /\ OPENAI_API_KEY = "sk-key"
  /\ FPL_BASE_URL = "https://fpl"
  /\ FPL_TEAM_ID \in {Absent, "env-team"}
  /\ FPL_SESSION = "session"
  /\ openai = "client"
  /\ request \in [teamId : {Absent, "ui-team"}, freeTransfers : {Absent}]
  /\ pc = "start"
  /\ teamIdToUse = Absent
  /\ bootstrapData = JUndefined
  /\ allFixturesData = << >>
  /\ currentGameweekId = 0
  /\ nextGameweekId = 0
  /\ myPicksRaw = JUndefined
  /\ userFPLContext = JUndefined
  /\ fplGeneralSummary = JUndefined
  /\ prompt = JUndefined
  /\ messageContent = JUndefined
  /\ aiSuggestionObject = JUndefined
  /\ calls = << >>
  /\ caught = NoError
  /\ raised = NoError
  /\ response = NoResponse
  /\ active = 1
  /\ suspended \in {NewFrame(2, req) :
                      req \in [teamId : {Absent, "other-team"}, freeTransfers : {"2"}]}
  /\ Mounted

\* The event loop turns to the other invocation, which begins or goes on.
Switch ==
  /\ suspended # NoFrame
  /\ suspended.pc # "done"
  /\ active' = suspended.id
  /\ suspended' = ActiveFrame
  /\ pc' = suspended.pc
  /\ calls' = suspended.calls
  /\ caught' = suspended.caught
  /\ raised' = suspended.raised
  /\ response' = suspended.response
  /\ request' = Resumed("request", request, suspended.request)
  /\ teamIdToUse' = Resumed("teamIdToUse", teamIdToUse, suspended.teamIdToUse)
  /\ bootstrapData' = Resumed("bootstrapData", bootstrapData, suspended.bootstrapData)
  /\ allFixturesData' =
       Resumed("allFixturesData", allFixturesData, suspended.allFixturesData)
  /\ currentGameweekId' =
       Resumed("currentGameweekId", currentGameweekId, suspended.currentGameweekId)
  /\ nextGameweekId' =
       Resumed("nextGameweekId", nextGameweekId, suspended.nextGameweekId)
  /\ myPicksRaw' = Resumed("myPicksRaw", myPicksRaw, suspended.myPicksRaw)
  /\ userFPLContext' =
       Resumed("userFPLContext", userFPLContext, suspended.userFPLContext)
  /\ fplGeneralSummary' =
       Resumed("fplGeneralSummary", fplGeneralSummary, suspended.fplGeneralSummary)
  /\ prompt' = Resumed("prompt", prompt, suspended.prompt)
  /\ messageContent' =
       Resumed("messageContent", messageContent, suspended.messageContent)
  /\ aiSuggestionObject' =
       Resumed("aiSuggestionObject", aiSuggestionObject, suspended.aiSuggestionObject)
  /\ UNCHANGED <<config, client>>

\* The upstream replies the two requests are answered with: a failure of
\* the data provider or of the completion service, one of three catalogs,
\* and a completion content that is null, an object or not JSON.
TwoFailures ==
  {<<"API request failed with status ", "503", ": ">>, <<"Connection error.">>}
TwoCatalogs ==
  {[type |-> "object", events |-> ev, elements |-> SampleElements, teams |-> SampleTeams] :
     ev \in {EventList(2, 1, 2), EventList(2, 2, 0), EventList(1, 0, 0)}}
TwoContents == {JNull, JStr(<<"{", "}">>), JStr(<<"[">>)}
TwoUpstream ==
  /\ caught'.thrown => caught'.message \in TwoFailures
  /\ bootstrapData' \in {JUndefined} \cup TwoCatalogs
  /\ messageContent' \in {JUndefined} \cup TwoContents

NextTwo ==
  \/ GETStart
  \/ BootstrapSettles /\ TwoUpstream
  \/ FixturesSettles /\ TwoUpstream
  \/ PicksSettles /\ TwoUpstream
  \/ CompletionSettles /\ TwoUpstream
  \/ Switch

SpecTwo == InitTwo /\ [][NextTwo]_vars

\* ================================================================= claims
\* Shorthands for reading the outcome of a request.
Done == pc = "done"
Body == response.body
Suggestion == Get(response.body, "aiStructuredSuggestion")
Issued(api) == \E i \in DOMAIN calls : calls[i].api = api
Fulfilled(api) ==
  \E i \in DOMAIN calls : calls[i].api = api /\ calls[i].outcome = "fulfilled"
Rejected(api) ==
  \E i \in DOMAIN calls : calls[i].api = api /\ calls[i].outcome = "rejected"
CatalogFetched == bootstrapData.type = "object"
HasCurrent == \E i \in DOMAIN bootstrapData.events : bootstrapData.events[i].is_current
HasNext == \E i \in DOMAIN bootstrapData.events : bootstrapData.events[i].is_next
EnvelopeKeys == {"currentGameweek", "nextGameweekForAdvice", "teamIdUsed",
                 "aiStructuredSuggestion"}

\* The JSON grammar, generatively: the well-formed reply texts of nesting
\* depth at most d, each with the value it denotes.
RECURSIVE JsonTextsOfDepth(_)
JsonTextsOfDepth(d) ==
  IF d = 0
  THEN {[text |-> <<"null">>, val |-> JNull],
        [text |-> <<"\"text\"">>, val |-> JStr(<<"text">>)],
        [text |-> <<"[", "]">>, val |-> JArr(<< >>)],
        [text |-> <<"{", "}">>, val |-> JObj(<< >>)]}
  ELSE LET inner == JsonTextsOfDepth(d - 1) IN
       inner
       \cup {[text |-> <<"[">> \o q.text \o <<"]">>, val |-> JArr(<<q.val>>)] :
               q \in inner}
       \cup {[text |-> <<"{", k>> \o q.text \o <<"}">>,
               val |-> JObj(<<Member(KeyOf(k), q.val)>>)] :
               k \in KeyTokens, q \in inner}
\* Nesting deeper than the reply is long does not fit in a reply.
JsonReplies == JsonTextsOfDepth(MaxReplyLen)
IsJsonText(text) == \E q \in JsonReplies : q.text = text

\* The completion returned a reply with this content.
CompletionReplied == Done /\ Fulfilled("completion")
RepliedText == CompletionReplied /\ messageContent.type = "string"

\* ------------------------------------------------- the client component
\* src/src/components/FPLAdvisorClient.js and its copy src/unnamed/part_000.
\* What the user types is text, kept character by character.
WhiteSpace == {" "}

RECURSIVE TrimStart(_)
TrimStart(chars) ==
  IF chars # << >> /\ Head(chars) \in WhiteSpace THEN TrimStart(Tail(chars)) ELSE chars
RECURSIVE TrimEnd(_)
TrimEnd(chars) ==
  IF chars # << >> /\ chars[Len(chars)] \in WhiteSpace
  THEN TrimEnd(SubSeq(chars, 1, Len(chars) - 1))
  ELSE chars
\* String.prototype.trim
Trim(chars) == TrimEnd(TrimStart(chars))

\* A JavaScript number as parseInt returns it: NaN, or a sign and a magnitude
\* (the sign is kept apart because parseInt("-0") is -0).
NaN == [nan |-> TRUE, negative |-> FALSE, magnitude |-> 0]
\* parseInt(text) in radix 10: leading white space is skipped, a sign is
\* read, then the longest run of digits; what follows the digits is ignored;
\* without a digit the result is NaN.  (No hexadecimal text is entered.)
ParseInt(chars) ==
  LET text == TrimStart(chars)
      signed == text # << >> /\ Head(text) \in {"+", "-"}
      rest == IF signed THEN Tail(text) ELSE text
      digits == ReadDigits(rest, 1, 0)
  IN  IF digits.next = 1 THEN NaN
      ELSE [nan |-> FALSE, negative |-> Head(text) = "-", magnitude |-> digits.val]
IsNaN(v) == v.nan
\* v >= 0: false for NaN, true for -0.
AtLeastZero(v) == ~v.nan /\ (~v.negative \/ v.magnitude = 0)

\* new URL("/api/advise", origin).searchParams before anything is appended:
\* a parameter that is not appended is not in the domain.
NoSearchParams == [name \in {} |-> << >>]
\* The query fetchAdvice builds from the two input fields (lines 59-74).
SearchParamsOf(freeTransfersText, teamIdText) ==
  LET ftValue == ParseInt(freeTransfersText)
      withFreeTransfers ==
        IF ~IsNaN(ftValue) /\ AtLeastZero(ftValue)
        THEN With(NoSearchParams, "freeTransfers", freeTransfersText)
        ELSE NoSearchParams
  IN  IF Trim(teamIdText) # << >>
      THEN With(withFreeTransfers, "teamId", Trim(teamIdText))
      ELSE withFreeTransfers

\* What the two input fields can hold.  The free-transfers field is a number
\* input: its value is the empty text or a floating-point number as typed.
FreeTransfersEntries ==
  {<< >>, DefaultFreeTransfers, <<"0">>, <<"-", "1">>, <<"2", ".", "5">>,
   <<"-", "0", ".", "5">>}
\* The team field is a text input.
TeamIdEntries == {<< >>, <<" ">>, <<" ", "7", " ">>, DefaultTeamId}

\* What /api/advise can answer.  The suggestion of a 200 envelope is the
\* route's own error object, its canned suggestion, or whatever JSON value the
\* completion reply parsed to.
SampleAdvice ==
  JObj(<<Member("promisingTeamsNextGW", JStr(<<"Arsenal">>)),
         Member("transferStrategy", JStr(<<"Hold">>))>>)
Suggestions ==
  {SampleAdvice,
   NoPicksSuggestion("7"),
   ValidateReply(JStr(<< >>)),
   ValidateReply(JStr(<<"{">>)),
   JObj(<<Member("error", JStr(<< >>)), Member("transferStrategy", JStr(<<"Hold">>))>>),
   JObj(<<Member("error", JNull), Member("transferStrategy", JStr(<<"Hold">>))>>),
   JStr(<<"Hold">>), JArr(<< >>), JNum(0), JNull}
AdviseData ==
  {Envelope(1, 2, "7", sg).body : sg \in Suggestions}
  \cup {JObj(<<Member("message", JStr(<<"FPL Advisor API request processed.">>))>>)}
AdviseReplies ==
  {TransportError(<<"Failed to fetch">>)}
  \cup {HttpResponse(200, << >>, TRUE, d) : d \in AdviseData \cup {JNull}}
  \cup {HttpResponse(200, <<"<html>">>, FALSE, JUndefined),
        HttpResponse(500, << >>, FALSE, JUndefined),
        HttpResponse(500, << >>, TRUE, ErrorBody(<<"OpenAI API key not configured.">>)),
        HttpResponse(500, << >>, TRUE, Envelope(1, 2, "7", SampleAdvice).body),
        HttpResponse(502, << >>, TRUE, JNull),
        HttpResponse(504, << >>, TRUE, JObj(<< >>))}

\* A value as string concatenation renders it.
TextOf(v) == IF v.type = "string" THEN v.s ELSE <<"[", v.type, "]">>

\* What the try block of fetchAdvice does with a response once its body is
\* parsed: it throws, or it sets apiMeta and one of error / structuredAdvice.
ThrowsMessage(msg) == [threw |-> TRUE, message |-> msg]
SetsState(meta, err, advice) ==
  [threw |-> FALSE, apiMeta |-> meta, error |-> err, structuredAdvice |-> advice]

\* Mutant: a suggestion that reports an error is displayed all the same.
SuggestionOutcomeKeepingAdvice(meta, suggestion) ==
  IF JTruthy(suggestion)
  THEN IF JTruthy(Get(suggestion, "error"))
       THEN SetsState(meta, JStr(TextOf(Get(suggestion, "error"))), suggestion)
       ELSE SetsState(meta, JNull, suggestion)
  ELSE SetsState(meta, JStr(<<"AI suggestion not found in the API response.">>), JNull)
\* Lines 93-106.
SuggestionOutcome(meta, suggestion) ==
  IF JTruthy(suggestion)
  THEN IF JTruthy(Get(suggestion, "error"))
       THEN SetsState(meta,
                      JStr(TextOf(Get(suggestion, "error")) \o
                           (IF JTruthy(Get(suggestion, "rawResponse"))
                            THEN <<" Raw: ">> \o TextOf(Get(suggestion, "rawResponse"))
                            ELSE << >>)),
                      JNull)
       ELSE SetsState(meta, JNull, suggestion)
  ELSE SetsState(meta, JStr(<<"AI suggestion not found in the API response.">>), JNull)

\* Lines 79-106, data being what response.json() resolved to.  Reading a
\* property of null throws a TypeError.
TryBlock(reply) ==
  LET data == reply.data IN
  IF data.type = "null"
  THEN ThrowsMessage(<<"Cannot read properties of null">>)
  ELSE IF ~ResponseOk(reply)
  THEN ThrowsMessage(IF JTruthy(Get(data, "error"))
                     THEN TextOf(Get(data, "error"))
                     ELSE <<"API request failed with status ", ToString(reply.status)>>)
  ELSE SuggestionOutcome(
         JObj(<<Member("currentGameweek", Get(data, "currentGameweek")),
                Member("nextGameweekForAdvice", Get(data, "nextGameweekForAdvice"))>>),
         Get(data, "aiStructuredSuggestion"))

\* Most runs of fetchAdvice and pending timeouts the model follows at once.
MaxRuns == 2

\* A run of fetchAdvice suspended at one of its two awaits.
AwaitingFetch == [at |-> "fetch", reply |-> NoResponse]
AwaitingJson(reply) == [at |-> "json", reply |-> reply]

\* In this specification pc is the list of the runs of fetchAdvice that have
\* not returned, request the query of the run started last and response the
\* reply received last.  The route's own state is not used.
InitClient ==
  /\ OPENAI_API_KEY = Absent
  /\ FPL_BASE_URL = Absent
  /\ FPL_TEAM_ID = Absent
  /\ FPL_SESSION = Absent
  /\ openai = Absent
  /\ request = NoSearchParams
  /\ pc = << >>
  /\ teamIdToUse = Absent
  /\ bootstrapData = JUndefined
  /\ allFixturesData = << >>
  /\ currentGameweekId = 0
  /\ nextGameweekId = 0
  /\ myPicksRaw = JUndefined
  /\ userFPLContext = JUndefined
  /\ fplGeneralSummary = JUndefined
  /\ prompt = JUndefined
  /\ messageContent = JUndefined
  /\ aiSuggestionObject = JUndefined
  /\ calls = << >>
  /\ caught = NoError
  /\ raised = NoError
  /\ response = NoResponse
  /\ active = 1
  /\ suspended = NoFrame
  /\ InitialState
  /\ variant \in Variants

\* onChange of the free-transfers field.
SetManualFreeTransfers ==
  /\ \E text \in FreeTransfersEntries :
       /\ text # manualFreeTransfers
       /\ manualFreeTransfers' = text
  /\ UNCHANGED <<config, others, request, pc, locals, calls, caught, raised, response,
                 structuredAdvice, isLoading, error, apiMeta, teamId, timers, variant>>

\* onChange of the team field.
SetTeamId ==
  /\ \E text \in TeamIdEntries :
       /\ text # teamId
       /\ teamId' = text
  /\ UNCHANGED <<config, others, request, pc, locals, calls, caught, raised, response,
                 structuredAdvice, isLoading, error, apiMeta, manualFreeTransfers,
                 timers, variant>>

\* Mutant: the button stays enabled.
ButtonNeverDisabled == FALSE
\* disabled={isLoading} of the button that runs fetchAdvice.
ButtonDisabled == isLoading

\* A click on the button: fetchAdvice runs up to await fetch(...).
FetchAdviceStarts ==
  /\ ~ButtonDisabled
  /\ Len(pc) + timers < MaxRuns
  /\ isLoading' = TRUE
  /\ error' = JNull
  /\ structuredAdvice' = JNull
  /\ apiMeta' = JNull
  /\ request' = SearchParamsOf(manualFreeTransfers, teamId)
  /\ pc' = Append(pc, AwaitingFetch)
  /\ UNCHANGED <<config, others, locals, calls, caught, raised, response,
                 manualFreeTransfers, teamId, timers, variant>>

\* pc without its i-th run.
Without(i) == SubSeq(pc, 1, i - 1) \o SubSeq(pc, i + 1, Len(pc))

\* The end of fetchAdvice, after the try or the catch block: isLoading is
\* reset at once, or by a timeout of 500 ms.
Ends ==
  /\ IF variant = "part_000"
     THEN timers' = timers + 1 /\ UNCHANGED isLoading
     ELSE isLoading' = FALSE /\ UNCHANGED timers

\* The catch block and the end of fetchAdvice.
Catches(msg) ==
  /\ error' = JStr(msg)
  /\ structuredAdvice' = JNull
  /\ UNCHANGED apiMeta
  /\ Ends

\* fetch settles: a response arrives and fetchAdvice awaits its body, or the
\* call is rejected and the catch block ends the run.
FetchSettles ==
  /\ \E i \in DOMAIN pc, reply \in AdviseReplies :
       /\ pc[i].at = "fetch"
       /\ response' = reply
       /\ IF reply.kind = "transport"
          THEN /\ pc' = Without(i)
               /\ Catches(reply.cause)
          ELSE /\ pc' = [pc EXCEPT ![i] = AwaitingJson(reply)]
               /\ UNCHANGED <<structuredAdvice, isLoading, error, apiMeta, timers>>
  /\ UNCHANGED <<config, others, request, locals, calls, caught, raised,
                 manualFreeTransfers, teamId, variant>>

\* response.json() settles and fetchAdvice runs to its end.
JsonSettles ==
  /\ \E i \in DOMAIN pc :
       /\ pc[i].at = "json"
       /\ pc' = Without(i)
       /\ IF ~pc[i].reply.wellFormed
          THEN Catches(<<"Unexpected end of JSON input">>)
          ELSE LET outcome == TryBlock(pc[i].reply) IN
               IF outcome.threw
               THEN Catches(outcome.message)
               ELSE /\ apiMeta' = outcome.apiMeta
                    /\ error' = outcome.error
                    /\ structuredAdvice' = outcome.structuredAdvice
                    /\ Ends
  /\ UNCHANGED <<config, others, request, locals, calls, caught, raised, response,
                 manualFreeTransfers, teamId, variant>>

\* The timeout set by the copy of part_000 fires.
TimeoutFires ==
  /\ timers > 0
  /\ timers' = timers - 1
  /\ isLoading' = FALSE
  /\ UNCHANGED <<config, others, request, pc, locals, calls, caught, raised, response,
                 structuredAdvice, error, apiMeta, manualFreeTransfers, teamId, variant>>

NextClient ==
  \/ SetManualFreeTransfers
  \/ SetTeamId
  \/ FetchAdviceStarts
  \/ FetchSettles
  \/ JsonSettles
  \/ TimeoutFires

SpecClient == InitClient /\ [][NextClient]_vars

\* The same with what the browser guarantees: a fetch and the reading of a
\* body settle, a timeout that was set fires.
SpecClientLive ==
  /\ SpecClient
  /\ WF_vars(FetchSettles)
  /\ WF_vars(JsonSettles)
  /\ WF_vars(TimeoutFires)

\* ---------------------------------------------------------------------- C1
ConfigMissing ==
  \/ ~Truthy(OPENAI_API_KEY)
  \/ ~Truthy(FPL_BASE_URL)
  \/ ~Truthy(OrElse(request.teamId, FPL_TEAM_ID))
  \/ ~Truthy(FPL_SESSION)
ConfigMessages ==
  {<<"OpenAI API key not configured.">>, <<"FPL Base URL not configured.">>,
   <<"FPL Team ID not configured or provided.">>, <<"FPL Session ID not configured.">>}
IsConfigErrorResponse ==
  /\ response.status = 500
  /\ Keys(Body) = {"error"}
  /\ Get(Body, "error").type = "string"
  /\ Get(Body, "error").s \in ConfigMessages

\* C1: when any of the four configuration values (completion credential,
\* base URL, resolved team identifier, session credential) is absent, no
\* outbound call is ever made in the request and the request ends in a
\* non-success response that carries a configuration error.
C1_ConfigErrorBeforeAnyCall ==
  ConfigMissing =>
    /\ calls = << >>
    /\ pc \in {"start", "done"}
    /\ Done => IsConfigErrorResponse /\ ~raised.thrown /\ ~caught.thrown

C1_Witness == Done /\ ConfigMissing /\ response.status = 500

\* ---------------------------------------------------------------------- C2
SessionMissingTeamSupplied == ~Truthy(FPL_SESSION) /\ Truthy(request.teamId)
IsNoPicksEnvelope ==
  /\ response.status = 200
  /\ HasKey(Body, "currentGameweek")
  /\ JTruthy(Get(Suggestion, "error"))
  /\ Get(Suggestion, "startingLineup") = NotAvailable

\* C2 as claimed: with the session credential missing and a team id
\* supplied, the request returns a success envelope with currentGameweek,
\* an error and the startingLineup sentinel, builds no UserContext and sends
\* no completion request.
C2_AsClaimed ==
  (Done /\ SessionMissingTeamSupplied) =>
    /\ IsNoPicksEnvelope
    /\ userFPLContext = JUndefined
    /\ ~Issued("completion")

\* C2 amended: with the session credential missing and a team id supplied,
\* the request ends in the non-success configuration-error response, with no
\* outbound call, no UserContext and no completion request; the success
\* envelope with currentGameweek, an error and the startingLineup sentinel is
\* what a request returns whose picks fetch yielded no picks, again without
\* UserContext and completion request.
C2_SessionMissingIsConfigError ==
  /\ (Done /\ SessionMissingTeamSupplied) =>
       /\ IsConfigErrorResponse
       /\ calls = << >>
       /\ userFPLContext = JUndefined
  /\ (Done /\ myPicksRaw.type = "null") =>
       /\ IsNoPicksEnvelope
       /\ EnvelopeKeys \subseteq Keys(Body)
       /\ userFPLContext = JUndefined
       /\ ~Issued("completion")

C2_Witness ==
  /\ Done
  /\ SessionMissingTeamSupplied
  /\ Get(Body, "error") = JStr(<<"FPL Session ID not configured.">>)

\* ---------------------------------------------------------------------- C3
\* C3: when the catalog, fixtures or picks fetch or the completion request
\* throws, the handler returns a non-success response that carries the
\* error message together with an error suggestion echoing the same
\* message, and the failure handling itself does not raise.
C3_FailureIsSurfaced ==
  (Done /\ caught.thrown) =>
    /\ ~raised.thrown
    /\ response.status # 200
    /\ Get(Body, "error") = JStr(caught.message)
    /\ Get(Suggestion, "error") = JStr(caught.message)

\* ---------------------------------------------------------------------- C4
Before(i, api) ==
  \E j \in 1..(i - 1) : calls[j].api = api /\ calls[j].outcome = "fulfilled"

\* C4: the picks fetch is issued only after the catalog and the fixtures
\* fetch succeeded and the current gameweek is determined, and it is issued
\* for the current gameweek; the completion request is issued only after
\* picks were returned and UserContext and GeneralSummary were built.
C4_CallOrder ==
  \A i \in DOMAIN calls :
    /\ calls[i].api = "picks" =>
         /\ Before(i, "bootstrap") /\ Before(i, "fixtures")
         /\ currentGameweekId # 0
         /\ \E e \in DOMAIN bootstrapData.events :
              /\ bootstrapData.events[e].is_current
              /\ bootstrapData.events[e].id = calls[i].gameweek
         /\ calls[i].gameweek = currentGameweekId
    /\ calls[i].api = "completion" =>
         /\ Before(i, "picks")
         /\ JTruthy(myPicksRaw)
         /\ userFPLContext # JUndefined
         /\ fplGeneralSummary # JUndefined
         /\ prompt # JUndefined

C4_Witness == Issued("completion") /\ currentGameweekId # nextGameweekId

\* ---------------------------------------------------------------------- C5
\* C5: when no gameweek record of the fetched catalog is flagged is_current,
\* neither the picks fetch nor the completion request is made, and the
\* request (its two fetches having succeeded) ends in the non-success
\* response "Could not determine current gameweek.".
C5_NoCurrentGameweek ==
  (CatalogFetched /\ ~HasCurrent) =>
    /\ ~Issued("picks") /\ ~Issued("completion")
    /\ (Done /\ Fulfilled("fixtures")) =>
         /\ response = JsonResponse(500,
                          ErrorBody(<<"Could not determine current gameweek.">>))
         /\ ~raised.thrown

C5_Witness == Done /\ CatalogFetched /\ ~HasCurrent /\ Fulfilled("fixtures")

\* ---------------------------------------------------------------------- C6
NextFlaggedId ==
  bootstrapData.events[CHOOSE i \in DOMAIN bootstrapData.events :
                         bootstrapData.events[i].is_next].id

\* C6: with a current gameweek, a missing is_next record fails nothing (a
\* request in which no call threw returns a success envelope); every
\* envelope has nextGameweekForAdvice equal to currentGameweek when no
\* record is flagged is_next, and equal to the flagged record's id otherwise.
C6_NextGameweekFallback ==
  (Done /\ CatalogFetched /\ HasCurrent) =>
    /\ ~caught.thrown => response.status = 200
    /\ response.status = 200 =>
         /\ EnvelopeKeys \subseteq Keys(Body)
         /\ Get(Body, "nextGameweekForAdvice") =
              IF HasNext THEN JNum(NextFlaggedId) ELSE Get(Body, "currentGameweek")

C6_Witness ==
  /\ Done /\ CatalogFetched /\ HasCurrent /\ ~HasNext
  /\ response.status = 200
  /\ Get(Body, "nextGameweekForAdvice") = Get(Body, "currentGameweek")

\* ---------------------------------------------------------------------- C7
\* The request ended for a configuration error, for a thrown fetch or
\* completion error, or for an undeterminable current gameweek.
FatalCause ==
  \/ ConfigMissing
  \/ caught.thrown
  \/ CatalogFetched /\ ~HasCurrent
\* The reply failed JSON parsing, or there were no picks to personalise with.
ParseFailed == RepliedText /\ messageContent.s # << >> /\ ~IsJsonText(messageContent.s)
NoPersonalization == Done /\ myPicksRaw.type = "null"

\* C7: a non-success status is returned only for configuration errors and
\* fatal fetch/completion errors (an undeterminable current gameweek
\* included), and the body of such a response has a single error string
\* field; a reply that fails JSON parsing and the no-personalization state
\* give a success status and a complete envelope.
C7_StatusPolicy ==
  Done =>
    /\ response.status # 200 =>
         /\ FatalCause
         /\ Keys(Body) = {"error"}
         /\ Get(Body, "error").type = "string"
    /\ (ParseFailed \/ NoPersonalization) =>
         /\ response.status = 200
         /\ EnvelopeKeys \subseteq Keys(Body)

\* ---------------------------------------------------------------------- C8
\* C8: for a non-empty reply text that is not valid JSON, validation does
\* not raise and gives the error object with the fixed "did not return valid
\* JSON" message and the reply text itself as rawResponse, and the request
\* returns a success envelope.
C8_InvalidJsonReply ==
  ParseFailed =>
    /\ ~raised.thrown /\ ~caught.thrown
    /\ response.status = 200
    /\ EnvelopeKeys \subseteq Keys(Body)
    /\ Keys(Suggestion) = {"error", "rawResponse"}
    /\ Get(Suggestion, "error") = JStr(InvalidJsonMessage)
    /\ Get(Suggestion, "rawResponse") = messageContent

C8_Witness == ParseFailed /\ Len(messageContent.s) > 1

\* ---------------------------------------------------------------------- C9
ParsedReply == RepliedText /\ IsJsonText(messageContent.s)
ValueOfReply == (CHOOSE q \in JsonReplies : q.text = messageContent.s).val

\* C9 as claimed: for a reply text that parses as JSON, the suggestion in
\* the envelope is the parsed value unchanged and is always a JSON object.
C9_AsClaimed ==
  ParsedReply =>
    /\ Suggestion = ValueOfReply
    /\ IsObject(Suggestion)

\* C9 amended: for a reply text that parses as JSON, the suggestion in the
\* success envelope is the parsed value unchanged, whatever its JSON type:
\* no structural check is applied, so it is an object exactly when the
\* reply's top-level value is one, and null, arrays and scalars pass through.
C9_ParsedReplyPassedThrough ==
  ParsedReply =>
    /\ response.status = 200
    /\ Suggestion = ValueOfReply
    /\ aiSuggestionObject = ValueOfReply
    /\ IsObject(Suggestion) <=> messageContent.s[1] = "{"

C9_Witness == ParsedReply /\ Suggestion.type = "array"

\* --------------------------------------------------------------------- C10
EmptyReply == CompletionReplied /\ ~JTruthy(messageContent)
ThrownByCompletion == {r.error : r \in {o \in CompletionOutcomes : o.threw}}

\* C10 as claimed: an empty completion reply aborts the request instead of
\* giving a success envelope.
C10_AsClaimed == EmptyReply => response.status # 200

\* C10 amended: an empty completion reply has its own reason string,
\* distinct from the one of a parse failure and from the errors the
\* completion call throws, but it does not abort the request: the reason is
\* the error of the suggestion in a success envelope.
C10_EmptyReplyAbsorbed ==
  EmptyReply =>
    /\ response.status = 200
    /\ ~caught.thrown /\ ~raised.thrown
    /\ EnvelopeKeys \subseteq Keys(Body)
    /\ Suggestion = JObj(<<Member("error", JStr(EmptyMessage))>>)
    /\ EmptyMessage # InvalidJsonMessage
    /\ EmptyMessage \notin ThrownByCompletion

C10_Witness == EmptyReply /\ messageContent = JStr(<< >>)

\* ---------------------------------------------------------------- C11
Picks == myPicksRaw.picks
Built == pc = "built"
\* The catalog players a pick refers to, and the teams a player refers to.
PlayersOf(pick) ==
  {j \in DOMAIN bootstrapData.elements : bootstrapData.elements[j].id = pick.element}
TeamsOf(player) ==
  {j \in DOMAIN bootstrapData.teams : bootstrapData.teams[j].id = player.team}
UnmatchedPlayer(pick) == PlayersOf(pick) = {}
UnmatchedTeam(pick) ==
  /\ PlayersOf(pick) # {}
  /\ \A j \in PlayersOf(pick) : TeamsOf(bootstrapData.elements[j]) = {}
AtDefaults(out) ==
  /\ out.cost.num = 0
  /\ out.form = <<"0">>
  /\ out.points_per_game = "0"
  /\ out.total_points = 0
  /\ out.selected_by_percent = "0"
  /\ out.chance_of_playing_next_round = 100
  /\ out.minutes = 0 /\ out.starts = 0 /\ out.bps = 0
  /\ out.influence = "0" /\ out.creativity = "0" /\ out.threat = "0"
  /\ out.ict_index = "0"
  /\ out.expected_goals = "N/A" /\ out.expected_assists = "N/A"
  /\ out.expected_goal_involvements = "N/A"

\* C11: buildUserFPLContext does not raise on a pick whose player, or whose
\* player's team, is not in the catalog: team_picks is as long as the pick
\* list, entry i carries the position, player id and captaincy flags of pick
\* i, an unmatched player is named "Unknown" with team "Unknown Team" and
\* the other fields at their defaults, an unmatched team is "Unknown Team".
C11_UnmatchedPicksKept ==
  Built =>
    /\ raised = NoError
    /\ Len(userFPLContext.team_picks) = Len(Picks)
    /\ \A i \in DOMAIN Picks :
         LET out == userFPLContext.team_picks[i] IN
         /\ out.position = Picks[i].position
         /\ out.player_id = Picks[i].element
         /\ out.is_captain = Picks[i].is_captain
         /\ out.is_vice_captain = Picks[i].is_vice_captain
         /\ UnmatchedPlayer(Picks[i]) =>
              out.name = "Unknown" /\ out.team_name = "Unknown Team" /\ AtDefaults(out)
         /\ UnmatchedTeam(Picks[i]) =>
              /\ out.team_name = "Unknown Team"
              /\ \E j \in PlayersOf(Picks[i]) :
                   out.name = bootstrapData.elements[j].web_name

\* A two-pick list built against the full catalog: an unmatched player first,
\* a player of an unmatched team second.
C11_Witness ==
  /\ Built
  /\ Len(Picks) = 2
  /\ bootstrapData.elements # << >>
  /\ UnmatchedPlayer(Picks[1])
  /\ UnmatchedTeam(Picks[2])
  /\ Len(userFPLContext.team_picks) = 2

\* ---------------------------------------------------------------- C12
\* The chips of the payload, none when the list is missing.
Chips == IF Has(myPicksRaw, "chips") THEN myPicksRaw.chips ELSE << >>
AvailableAt == {i \in DOMAIN Chips : Chips[i].status_for_event = "available"}
\* The k-th smallest member of a set of indices.
Kth(S, k) == CHOOSE i \in S : Cardinality({j \in S : j <= i}) = k

\* C12: available_chips holds exactly the names of the input chips whose
\* status_for_event is "available", in input order; chips of any other
\* status are left out and a missing chips list gives the empty list.
C12_AvailableChips ==
  Built =>
    /\ Len(userFPLContext.available_chips) = Cardinality(AvailableAt)
    /\ \A k \in DOMAIN userFPLContext.available_chips :
         userFPLContext.available_chips[k] = Chips[Kth(AvailableAt, k)].name

\* Three chips, the middle one not available: the outer two are listed.
C12_Witness ==
  /\ Built
  /\ Len(Chips) = 3
  /\ AvailableAt = {1, 3}
  /\ Chips[2].status_for_event = "unavailable"
  /\ userFPLContext.available_chips = <<"wildcard", "3xc">>

\* ---------------------------------------------------------------- C13
Summarised == pc \in {"once", "twice"}
Upcoming == fplGeneralSummary.upcoming_fixtures_next_gw
\* The fixtures of the next gameweek, by position in the input.
NextGameweekAt ==
  {i \in DOMAIN allFixturesData :
     /\ nextGameweekId # 0
     /\ Has(allFixturesData[i], "event")
     /\ allFixturesData[i].event = nextGameweekId}

\* C13: a fixture is in the upcoming-fixtures list iff its event equals
\* nextGameweekId, the listed fixtures are in input order, and without a
\* nextGameweekId the list is empty and nothing is raised.
C13_UpcomingFixtures ==
  Summarised =>
    /\ raised = NoError
    /\ Len(Upcoming) = Cardinality(NextGameweekAt)
    /\ \A k \in DOMAIN Upcoming :
         Upcoming[k].kickoff_time = allFixturesData[Kth(NextGameweekAt, k)].kickoff_time
    /\ nextGameweekId = 0 => Upcoming = << >>

\* Fixtures of gameweeks 1, 2, 2, 3 and nextGameweekId 2: the two middle
\* ones are listed, in input order.
C13_Witness ==
  /\ Summarised
  /\ Len(allFixturesData) = 4
  /\ nextGameweekId = 2
  /\ NextGameweekAt = {2, 3}
  /\ Has(allFixturesData[1], "event") /\ Has(allFixturesData[4], "event")
  /\ Len(Upcoming) = 2
  /\ Upcoming[1].kickoff_time = "t2" /\ Upcoming[2].kickoff_time = "t3"

\* ---------------------------------------------------------------- C14
Players == bootstrapData.elements
TopPerformers == fplGeneralSummary.top_performing_players_sample
\* The form of a player as the ranking is said to count it, in tenths: its
\* number, 0 when it is missing or not a number.
CountedForm(p) ==
  IF ~Has(p, "form") THEN 0
  ELSE CASE p.form = <<"3", ".", "0">> -> 30
         [] p.form = <<"5", ".", "5">> -> 55
         [] p.form = <<"6", ".", "0">> -> 60
         [] p.form = <<"7", ".", "0">> -> 70
         [] OTHER -> 0
\* The place of player i in the descending order of form, catalog order
\* among equals.
Rank(i) ==
  1 + Cardinality({j \in DOMAIN Players :
                     \/ CountedForm(Players[j]) > CountedForm(Players[i])
                     \/ CountedForm(Players[j]) = CountedForm(Players[i]) /\ j < i})

\* C14: the top performers are the first min(10, n) players of the catalog
\* in descending order of numeric form, a missing or non-numeric form
\* counting as 0 and players of equal form staying in catalog order.
C14_TopPerformersByForm ==
  Summarised =>
    /\ Len(TopPerformers) =
         (IF Len(Players) < TopPlayersSample THEN Len(Players) ELSE TopPlayersSample)
    /\ \A k \in DOMAIN TopPerformers :
         \E i \in DOMAIN Players :
           Rank(i) = k /\ TopPerformers[k].name = Players[i].web_name

\* ---------------------------------------------------------------- C15
\* C15: buildFPLGeneralSummary leaves the catalog it is given as it was (it
\* sorts a copy), so a second run on the same catalog, fixtures and
\* nextGameweekId gives the same top performers in the same order.
C15_CatalogLeftAlone ==
  [][/\ pc \in {"inputs", "once"} => bootstrapData' = bootstrapData
     /\ pc = "once" =>
          fplGeneralSummary'.top_performing_players_sample = TopPerformers]_vars

\* A second run over a catalog longer than the sample whose first player
\* is not the best in form.
C15_Witness ==
  /\ pc = "twice"
  /\ Len(Players) > TopPlayersSample
  /\ \E j \in DOMAIN Players : CountedForm(Players[1]) < CountedForm(Players[j])
  /\ TopPerformers[1].name # Players[1].web_name

\* ---------------------------------------------------------------- C16
\* The bank of the payload in tenths, 0 when it is missing.
RawBank ==
  IF Has(myPicksRaw, "entry_history") /\ Has(myPicksRaw.entry_history, "bank")
  THEN myPicksRaw.entry_history.bank ELSE 0
\* q is a tenth of raw.
IsTenthOf(q, raw) == q.den # 0 /\ q.num * 10 = raw * q.den

\* C16: the bank of the context is the raw bank (tenths) divided by 10 once,
\* 0 when the raw bank is missing, and the cost of each enriched pick is the
\* raw now_cost of its player divided by 10.
C16_TenthsDividedOnce ==
  Built =>
    /\ IsTenthOf(userFPLContext.bank, RawBank)
    /\ \A i \in DOMAIN Picks : \A j \in PlayersOf(Picks[i]) :
         IsTenthOf(userFPLContext.team_picks[i].cost, bootstrapData.elements[j].now_cost)

\* A raw bank of 1005 and a pick of the player costing 1005.
C16_Witness ==
  /\ Built
  /\ RawBank = 1005
  /\ userFPLContext.bank.num * 10 = 1005 * userFPLContext.bank.den
  /\ \E i \in DOMAIN Picks : \E j \in PlayersOf(Picks[i]) :
       /\ bootstrapData.elements[j].now_cost = 1005
       /\ userFPLContext.team_picks[i].cost.num # 0

\* ---------------------------------------------------------------- C17
Composed == pc = "composed"
Hint == request.freeTransfers
\* The hints that read as a count of free transfers.
CountHints == {"0", "1", "2"}

\* C17 as claimed: a hint that is absent or does not read as a count (an
\* empty or non-numeric value) is replaced in the prompt by the fixed
\* sentence, any other hint is in the prompt, and composing never fails.
C17_AsClaimed ==
  Composed =>
    /\ raised = NoError
    /\ Hint \notin CountHints => prompt.ftForPrompt = FreeTransfersSentinel
    /\ Hint \in CountHints => prompt.ftForPrompt = Hint

\* C17: the fixed sentence stands in the prompt only for a hint that is
\* absent from the query; every value the query carries, empty and
\* non-numeric ones included, is put in the prompt as it is, and composing
\* never fails.
C17_SentinelOnlyWhenAbsent ==
  Composed =>
    /\ raised = NoError
    /\ Hint = Absent => prompt.ftForPrompt = FreeTransfersSentinel
    /\ Hint # Absent => prompt.ftForPrompt = Hint

\* A request whose freeTransfers parameter is empty: the prompt carries the
\* empty hint.
C17_Witness ==
  /\ Composed
  /\ Hint = ""
  /\ prompt.ftForPrompt = ""
  /\ Len(prompt.team_picks) > 0

\* ---------------------------------------------------------------- C18
AbsentOrEmpty(v) == v = Absent \/ v = ""

\* C18: fetchMyPicks returns null, raising nothing and issuing no call,
\* whenever the team identifier or the session credential is absent or
\* empty; with both present it issues exactly one picks fetch, for the
\* gameweek and the team it was given.
C18_FetchMyPicksGuard ==
  pc # "inputs" =>
    IF AbsentOrEmpty(teamIdToUse) \/ AbsentOrEmpty(FPL_SESSION)
    THEN /\ pc = "returned"
         /\ myPicksRaw = JNull
         /\ raised = NoError
         /\ calls = << >>
    ELSE /\ Len(calls) = 1
         /\ calls[1].api = "picks"
         /\ calls[1].gameweek = currentGameweekId
         /\ calls[1].team = teamIdToUse

\* A team identifier with an empty session credential: null, no call.
C18_Witness ==
  /\ pc = "returned"
  /\ teamIdToUse = "ui-team"
  /\ FPL_SESSION = ""
  /\ myPicksRaw = JNull
  /\ calls = << >>

\* ---------------------------------------------------------------- C19
AnyRejected == \E i \in DOMAIN calls : calls[i].outcome = "rejected"

\* C19: within one request each outbound call (catalog, fixtures, picks,
\* completion) is attempted at most once, and once a call has failed no
\* call is made any more, neither the same one again nor a later one.
C19_SingleAttempt ==
  [][/\ \A i, j \in DOMAIN calls' : calls'[i].api = calls'[j].api => i = j
     /\ AnyRejected => calls' = calls]_vars

\* The picks fetch failed after the catalog and the fixtures were fetched:
\* the request is over with three calls made and no completion asked for.
C19_Witness ==
  /\ Done
  /\ Len(calls) = 3
  /\ calls[1].outcome = "fulfilled" /\ calls[2].outcome = "fulfilled"
  /\ calls[3].api = "picks" /\ calls[3].outcome = "rejected"
  /\ ~Issued("completion")

\* ---------------------------------------------------------------- C20
\* The team identifier a request is to use: its teamId parameter when that
\* is a non-empty string, the configured default otherwise.
TeamIdOfRequest ==
  IF request.teamId # Absent /\ request.teamId # "" THEN request.teamId
  ELSE FPL_TEAM_ID

\* C20: the team identifier a request uses is its teamId parameter when
\* that is a non-empty string and the configured default otherwise; the
\* picks fetch is made for that identifier and the teamIdUsed of every
\* envelope returned is that identifier.
C20_TeamIdUsed ==
  pc # "start" =>
    /\ teamIdToUse = TeamIdOfRequest
    /\ \A i \in DOMAIN calls : calls[i].api = "picks" => calls[i].team = TeamIdOfRequest
    /\ response.status = 200 => Get(Body, "teamIdUsed") = JStr(<<TeamIdOfRequest>>)

\* A request with an empty teamId parameter answered with an envelope: the
\* picks were fetched for the configured team and the envelope names it.
C20_Witness ==
  /\ Done
  /\ request.teamId = ""
  /\ FPL_TEAM_ID = "env-team"
  /\ response.status = 200
  /\ \E i \in DOMAIN calls : calls[i].api = "picks" /\ calls[i].team = "env-team"
  /\ Get(Body, "teamIdUsed") = JStr(<<"env-team">>)

\* ---------------------------------------------------------------- C21
FetchSettled == pc = "returned"
\* text is part of the message msg.
Carries(msg, text) ==
  \E i \in 1..(Len(msg) + 1) :
    i + Len(text) - 1 <= Len(msg) /\ SubSeq(msg, i, i + Len(text) - 1) = text

\* C21: a call made through fetchData that is answered with a non-2xx
\* status fails with a message carrying the status code and the text of the
\* response body, one that meets a transport error fails with the
\* underlying cause unchanged, and in both cases no parsed data is returned.
C21_FetchFailures ==
  FetchSettled =>
    /\ (response.kind = "http" /\ response.status \notin 200..299) =>
         /\ raised.thrown
         /\ Carries(raised.message, <<ToString(response.status)>>)
         /\ Carries(raised.message, response.text)
         /\ myPicksRaw = JUndefined
    /\ response.kind = "transport" =>
         /\ raised = ErrorOf(response.cause)
         /\ myPicksRaw = JUndefined

\* The picks endpoint answered 404 with a JSON body: fetchData threw, the
\* message names 404 and quotes the body, the parsed body is not returned.
C21_Witness ==
  /\ FetchSettled
  /\ calls[1].api = "picks" /\ calls[1].outcome = "rejected"
  /\ response.kind = "http" /\ response.status = 404
  /\ response.wellFormed
  /\ raised.thrown
  /\ Carries(raised.message, <<"404">>)
  /\ myPicksRaw = JUndefined

\* ---------------------------------------------------------------- C22
\* What a request returns when it is handled alone, by its query, the
\* configuration and the upstream replies it was given (the catalog, the
\* picks, the completion content, or the failure of a call).
AloneResponse(f) ==
  LET team == IF f.request.teamId # Absent /\ f.request.teamId # ""
              THEN f.request.teamId ELSE FPL_TEAM_ID
      events == f.bootstrapData.events
      current == CurrentEvent(events)
      currentId == events[current].id
      nextId == NextGameweekId(events, currentId)
  IN IF ConfigError(team) # << >>
     THEN JsonResponse(500, ErrorBody(ConfigError(team)))
     ELSE IF f.caught.thrown
     THEN CatchBlock(f.caught.message, f.aiSuggestionObject).response
     ELSE IF current = 0
     THEN JsonResponse(500, ErrorBody(<<"Could not determine current gameweek.">>))
     ELSE IF ~JTruthy(f.myPicksRaw)
     THEN Envelope(currentId, nextId, team, NoPicksSuggestion(team))
     ELSE Envelope(currentId, nextId, team, ValidateReply(f.messageContent))
BothRequests == {ActiveFrame, suspended}

\* C22: requests handled at the same time are independent: a step of one
\* request leaves the bindings of the other and the module-level bindings
\* as they were, and under every interleaving of the two at their awaits
\* each returns the response it returns alone on the same query and
\* upstream replies.
C22_RequestsIndependent ==
  /\ [](\A f \in BothRequests : f.pc = "done" => f.response = AloneResponse(f))
  /\ [][active' = active => suspended' = suspended /\ config' = config]_vars

\* Request 2 has returned an envelope while request 1, begun for another
\* team and given another catalog, still waits for its completion.
C22_Witness ==
  /\ active = 2
  /\ pc = "done"
  /\ response.status = 200
  /\ suspended.pc = "awaitCompletion"
  /\ suspended.bootstrapData # bootstrapData
  /\ suspended.teamIdToUse # teamIdToUse
  /\ Get(Body, "teamIdUsed") = JStr(<<teamIdToUse>>)

\* ---------------------------------------------------------------- C23
\* The text of a non-negative integer: digits and nothing else.
IsCount(chars) == chars # << >> /\ \A i \in DOMAIN chars : chars[i] \in DigitChars
\* A click starts a run of fetchAdvice.
RunStarts == Len(pc') = Len(pc) + 1

\* C23: the query fetchAdvice builds carries freeTransfers exactly when the
\* text in the free-transfers field is a non-negative integer, and teamId
\* exactly when the text in the team field is non-empty after trimming.
C23_QueryParameters ==
  [][RunStarts =>
       /\ Has(request', "freeTransfers") <=> IsCount(manualFreeTransfers)
       /\ Has(request', "teamId") <=> Trim(teamId) # << >>]_vars

\* ---------------------------------------------------------------- C24
\* No run of fetchAdvice is in flight and the last one ended with the reply
\* in response.
RunSettled == pc = << >> /\ response # NoResponse

NonSuccess(reply) == reply.kind = "http" /\ ~ResponseOk(reply)
Unparsable(reply) == reply.kind = "http" /\ ~reply.wellFormed
SuggestionOf(reply) == Get(reply.data, "aiStructuredSuggestion")
LacksSuggestion(reply) ==
  reply.kind = "http" /\ reply.wellFormed /\ ~HasKey(reply.data, "aiStructuredSuggestion")
HasErrorField(reply) == HasKey(SuggestionOf(reply), "error")
ReportsError(reply) == JTruthy(Get(SuggestionOf(reply), "error"))

\* The condition of line 238 under which the advice cards are rendered.
CardsShown == JTruthy(structuredAdvice) /\ ~JTruthy(error) /\ ~isLoading
\* structuredAdvice and error are never both set.
NeverBoth == ~(structuredAdvice # JNull /\ error # JNull)
ErrorSetAdviceNull == error # JNull /\ structuredAdvice = JNull

RunEnds == Len(pc') = Len(pc) - 1

\* C25: isLoading is true while a run of fetchAdvice is in flight and while
\* the delayed reset is pending; a run starts only when no run is in flight
\* and no reset is pending; the run that ends resets isLoading at once in
\* FPLAdvisorClient.js and leaves it to one timeout in part_000, after a
\* success and after a failure alike; and isLoading, once true, becomes
\* false again.
C25_Loading ==
  /\ []((pc # << >> \/ timers > 0) => isLoading)
  /\ [][RunStarts => ~isLoading /\ pc = << >> /\ timers = 0]_vars
  /\ [][RunEnds => IF variant = "part_000"
                   THEN isLoading' /\ timers' = 1
                   ELSE ~isLoading' /\ timers' = 0]_vars
  /\ (isLoading ~> ~isLoading)

\* In part_000 a run has failed, its reset is pending and the button is
\* still disabled.
C25_Witness ==
  /\ variant = "part_000"
  /\ pc = << >>
  /\ timers = 1
  /\ isLoading
  /\ ButtonDisabled
  /\ error # JNull

====
